---- MODULE Spec2Model ----
(***************************************************************************)
(* Header-chain tracking engine of chaintracks-server: the in-memory       *)
(* storage (live headers map, active-by-height index), header insertion    *)
(* with fork choice and reorg handling, and the main thread's processing   *)
(* of live and base headers with subscriber notification.                  *)
(*                                                                         *)
(* A header's version, merkleRoot and time fields are carried opaquely by  *)
(* the engine; they appear here only through the outcome of the format     *)
(* check (wellFormed).  A block hash is an injective function of the       *)
(* remaining hashed fields (previousHash, bits, nonce).                    *)
(***************************************************************************)
EXTENDS Integers, Sequences, FiniteSets, TLC

VARIABLES
    liveHeaders,      \* storage: hash -> live entry {header fields, chainWork, isActive}
    activeByHeight,   \* storage: height -> hash of the active chain
    activeTip,        \* hash of the active chain tip
    tooDeep,          \* history: hashes whose activation was refused as too deep
    header,           \* main thread: the header processed last (NoHeader at start)
    result,           \* main thread: the InsertHeaderResult of that header
    notes,            \* main thread: listener calls made for that header, in order
    readerCount,      \* lock: number of readers holding the lock
    writerActive,     \* lock: a writer holds the lock
    writerQueue,      \* lock: writers waiting, in arrival order
    readerQueue,      \* lock: readers waiting, in arrival order
    rpc,              \* query task -> "idle" | "waiting" | "reading"
    seen,             \* query task -> hashes read so far, by ascending height
    wpc,              \* writing task -> "idle" | "waiting" | "writing" | "reorg"
    wplan,            \* insert task: the header in hand and its insertHeader outcome
    wold,             \* insert task: old-chain headers still to deactivate
    wnew,             \* insert task: new-chain headers still to activate
    preIndex,         \* history: activeByHeight when the last insert took the lock
    bulkFiles,        \* bulk storage: file number -> serialized headers, concatenated
    reply,            \* query: the last getHeaders request and its response
    hashReply,        \* query: the last findHeaderHexForBlockHash request and its response
    liveQueue,        \* main thread: headers pushed by the live ingestors, in order
    baseQueue,        \* main thread: headers submitted by clients, in order
    mpc,              \* main thread: position in the processing loop
    inHand,           \* main thread: the header shifted from a queue, to be processed
    recursions,       \* main thread: parent fetches made for the header being chased
    fetched,          \* history: the parent header the last chase step fetched
    delivered,        \* history: every listener call made, in order
    tipLog,           \* history: every hash that became the active tip, in order
    intake,           \* history: number of headers taken into the queues
    acked,            \* history: client headers whose submit call returned success
    epc,              \* lifecycle: position of the caller of startJsonRpcServer
    dpc,              \* lifecycle: position of destroy()
    available,        \* lifecycle: the engine serves queries
    startupError,     \* lifecycle: the main thread failed before the engine was available
    stopMainThread,   \* lifecycle: the main thread is asked to end
    liveIngestor,     \* lifecycle: state of the live ingestors
    bulkIngestor,     \* lifecycle: state of the bulk ingestors
    storageUp,        \* lifecycle: state of the storage
    logged,           \* lifecycle: errors the main thread logged and went on from
    spc,              \* bulk sync: position of BulkIngestor.synchronize
    chunkNo,          \* bulk sync: the manifest entry being ingested
    sourceNo,         \* bulk sync: the configured source tried next for it
    cache,            \* bulk sync: what the local cache path holds for each entry
    served,           \* bulk sync: what each source serves for each entry
    yielded,          \* bulk sync: the chunks handed on to storage, in order
    downloads,        \* history: the <<entry, source>> downloads made
    ppc,              \* live ingestor: position of the polling task
    remoteHeight,     \* live ingestor: the height /chain/info reports
    lastHeight,       \* live ingestor: the height up to which headers were pushed
    pollErrors,       \* live ingestor: network errors logged
    memFiles,         \* bulk manager: file number -> content, the files held in memory
    recency,          \* bulk manager: the files in memory, least recently used first
    known,            \* bulk manager: number of bulk files that exist
    lastRead,         \* bulk manager: the last read request and the bytes it gave
    pending,          \* bulk manager: the read request in progress and its bytes so far
    evictedOnce,      \* history: the files that were dropped from memory at some time
    enableBulkHeadersCDN, \* server: ENABLE_BULK_HEADERS_CDN
    isExporting,      \* server: an export call is past its guard
    lastExportedHeight,   \* server: height of the last successful export, 0 at start
    xpc,              \* server: position of each trigger's call of exportBulkHeaders
    xcur,             \* server: currentHeight as each call read it
    exported,         \* history: the heights of the successful exports, in order
    lastCall,         \* history: the last call of exportBulkHeaders and how it began
    exportErrors,     \* server: errors the calls caught
    subscribers,      \* event bus: the subscriptions <<id, kind>>, in subscription order
    nextId,           \* event bus: the next subscription id
    returned,         \* history: the ids whose unsubscribe call has returned
    shpc,             \* server: position of each run of the shutdown handler
    exportInterval,   \* server: the periodic export timer
    cdnServer,        \* server: the CDN file server
    exitCode,         \* server: the code process.exit was called with (Running before)
    loaded            \* history: hashes of the headers the initial bulk sync stored

storeVars == <<liveHeaders, activeByHeight, activeTip, tooDeep>>
mainVars == <<header, result, notes>>
lockVars == <<readerCount, writerActive, writerQueue, readerQueue>>
taskVars == <<rpc, seen, wpc, wplan, wold, wnew, preIndex>>
tierVars == <<bulkFiles, reply, hashReply>>
loopVars == <<liveQueue, baseQueue, mpc, inHand, recursions, fetched, delivered, tipLog,
              intake, acked>>
lifeVars == <<epc, dpc, available, startupError, stopMainThread, liveIngestor,
              bulkIngestor, storageUp, logged>>
syncVars == <<spc, chunkNo, sourceNo, cache, served, yielded, downloads>>
pollVars == <<ppc, remoteHeight, lastHeight, pollErrors>>
cacheVars == <<memFiles, recency, known, lastRead, pending, evictedOnce>>
exportVars == <<enableBulkHeadersCDN, isExporting, lastExportedHeight, xpc, xcur, exported,
                lastCall, exportErrors>>
serverVars == <<subscribers, nextId, returned, shpc, exportInterval, cdnServer, exitCode, loaded>>
sideVars == <<syncVars, pollVars, cacheVars, exportVars, serverVars>>
extraVars == <<tierVars, loopVars, lifeVars, sideVars>>
vars == <<storeVars, mainVars, lockVars, taskVars, extraVars>>

----------------------------------------------------------------------------
(* Bounds of the model *)

\* number of headers the store may hold beyond the genesis header
MaxHeaders == 5
\* reorgHeightThreshold option (default 400), scaled to the model
reorgHeightThreshold == 2
\* number of concurrent query tasks
NumReaders == 2
\* number of heights one query reads under a single read lock
ReadCount == 2
\* number of headers the store may hold beyond genesis when queries run concurrently
MaxLockHeaders == 4

----------------------------------------------------------------------------
(* Headers *)

\* a previousHash no ingestor or client header in the store ever has
UnknownHash == -5
NoHash == -1

BitsValues == {1, 3}
Nonces == {0, 1}
\* the (bits, nonce) pairs of the headers the sources supply
Shapes == {<<1, 0>>, <<3, 0>>, <<3, 1>>}

\* work of one block from its compact target: the lower the target, the more work
WorkScale == 3
blockWork(bits) == WorkScale \div bits

\* block hash of the hashed fields: injective in (previousHash, bits, nonce)
HashRadix == 8
blockHash(previousHash, bits, nonce) ==
    previousHash * HashRadix + bits * 2 + nonce

\* the hash of the first header, which has no previous header
GenesisHash == blockHash(NoHash, 1, 0)

\* known-invalid hashes the storage refuses
dirtyHashes == {blockHash(blockHash(GenesisHash, 1, 0), 3, 1)}

NoHeader == [previousHash |-> NoHash, bits |-> 0, nonce |-> 0, height |-> 0,
             hash |-> NoHash, wellFormed |-> FALSE]

genesisEntry == [previousHash |-> NoHash, bits |-> 1, nonce |-> 0, height |-> 0,
                 hash |-> GenesisHash, chainWork |-> 0, isActive |-> TRUE]

NoResult == [added |-> FALSE, dupe |-> FALSE, noPrev |-> FALSE, isActiveTip |-> FALSE,
             reorgDepth |-> 0, deactivatedHeaders |-> <<>>, priorTip |-> NoHash]

NoReply == [height |-> 0, count |-> 0, ok |-> TRUE, value |-> <<>>]
NoHashReply == [hash |-> NoHash, value |-> NoHeader]

----------------------------------------------------------------------------
(* Storage queries *)

\* mutant: only entries of the active chain are found
findLiveHeaderForBlockHash_activeOnly(live, hash) ==
    IF hash \in DOMAIN live /\ live[hash].isActive THEN live[hash] ELSE NoHeader

\* findLiveHeaderForBlockHash: map lookup in the live tier only
findLiveHeaderForBlockHash(live, hash) ==
    IF hash \in DOMAIN live THEN live[hash] ELSE NoHeader

\* findHeaderForHeight: active-chain lookup by height, then fetch by hash
findHeaderForHeight(live, abh, height) ==
    IF height \in DOMAIN abh THEN live[abh[height]] ELSE NoHeader

----------------------------------------------------------------------------
(* Header validation *)

\* format check of the submitted fields
validFormat(h) == h.wellFormed

\* the hash is not one of the known-invalid (dirty) hashes
notDirty(h) == h.hash \notin dirtyHashes

\* the claimed hash is the hash recomputed from the header's fields
hashMatches(h) == h.hash = blockHash(h.previousHash, h.bits, h.nonce)

\* mutant: the dirty-hash list is not consulted
validate_nodirty(h) == validFormat(h) /\ hashMatches(h)

validate(h) == validFormat(h) /\ notDirty(h) /\ hashMatches(h)

\* the previous header found must be exactly one below the header
heightFollows(prev, h) == prev.height = h.height - 1

----------------------------------------------------------------------------
(* Chain reorganization *)

\* Walk back from both tips until the hashes match; each list is tip-first.
\* The walk ends without an ancestor where a chain leaves the live map.
RECURSIVE walkBack(_, _, _, _, _)
walkBack(live, n, o, newChain, oldChain) ==
    IF n = o
    THEN [found |-> TRUE, ancestor |-> n, newChain |-> newChain, oldChain |-> oldChain]
    ELSE IF n \notin DOMAIN live \/ o \notin DOMAIN live
    THEN [found |-> FALSE, ancestor |-> NoHash, newChain |-> newChain,
          oldChain |-> oldChain]
    ELSE IF live[n].height > live[o].height
    THEN walkBack(live, live[n].previousHash, o, Append(newChain, n), oldChain)
    ELSE IF live[o].height > live[n].height
    THEN walkBack(live, n, live[o].previousHash, newChain, Append(oldChain, o))
    ELSE walkBack(live, live[n].previousHash, live[o].previousHash,
                  Append(newChain, n), Append(oldChain, o))

SeqToSet(s) == {s[i] : i \in 1..Len(s)}

\* mutant: the old chain's heights are left in the index
deactivateIndex_keep(live, abh, oldChain) == abh

\* Deactivate old chain: remove each header's height from activeByHeight
deactivateIndex(live, abh, oldChain) ==
    [ht \in DOMAIN abh \ {live[x].height : x \in SeqToSet(oldChain)} |-> abh[ht]]

\* Activate new chain: set each header's height in activeByHeight
activateIndex(live, abh, newChain) ==
    [ht \in DOMAIN abh \cup {live[x].height : x \in SeqToSet(newChain)} |->
        IF \E x \in SeqToSet(newChain) : live[x].height = ht
        THEN CHOOSE x \in SeqToSet(newChain) : live[x].height = ht
        ELSE abh[ht]]

\* mutant: the old chain's entries keep isActive
flipActive_newOnly(live, oldChain, newChain) ==
    [x \in DOMAIN live |->
        IF x \in SeqToSet(newChain) THEN [live[x] EXCEPT !.isActive = TRUE]
        ELSE live[x]]

\* isActive flips: false along the old chain, true along the new chain
flipActive(live, oldChain, newChain) ==
    [x \in DOMAIN live |->
        IF x \in SeqToSet(newChain) THEN [live[x] EXCEPT !.isActive = TRUE]
        ELSE IF x \in SeqToSet(oldChain) THEN [live[x] EXCEPT !.isActive = FALSE]
        ELSE live[x]]

\* mutant: no bound on the depth of a reorg
withinReorgThreshold_unbounded(oldChain) == TRUE

\* a reorg is handled only down to reorgHeightThreshold blocks below the tip
withinReorgThreshold(oldChain) == Len(oldChain) <= reorgHeightThreshold

\* depth = oldChain.length
reorgDepthOf(oldChain) == Len(oldChain)

\* handleReorg(newTip, oldTip) on a store that already holds newTip
handleReorg(live, abh, newTip, oldTip) ==
    LET w == walkBack(live, newTip, oldTip, <<>>, <<>>)
    IN  IF w.found /\ withinReorgThreshold(w.oldChain)
        THEN [done |-> TRUE,
              live |-> flipActive(live, w.oldChain, w.newChain),
              abh |-> activateIndex(live, deactivateIndex(live, abh, w.oldChain),
                                    w.newChain),
              depth |-> reorgDepthOf(w.oldChain),
              deactivated |-> w.oldChain]
        ELSE [done |-> FALSE, live |-> live, abh |-> abh, depth |-> 0,
              deactivated |-> <<>>]

----------------------------------------------------------------------------
(* Header insertion *)

\* mutant: the header's own work, not the cumulative work
chainWorkOf_own(prev, h) == blockWork(h.bits)

\* chainWork = prev.chainWork + blockWork(header.bits)
chainWorkOf(prev, h) == prev.chainWork + blockWork(h.bits)

liveEntry(h, work) ==
    [previousHash |-> h.previousHash, bits |-> h.bits, nonce |-> h.nonce,
     height |-> h.height, hash |-> h.hash, chainWork |-> work, isActive |-> FALSE]

\* mutant: equal work already takes over the active chain
exceedsTip_orEqual(work, tipWork) == work >= tipWork

\* mutant: one unit of work too many is asked for
exceedsTip_late(work, tipWork) == work > tipWork + 1

\* the new header takes over the active chain only with more work than the tip
exceedsTip(work, tipWork) == work > tipWork

unchangedStore(live, abh, tip, res) ==
    [live |-> live, abh |-> abh, tip |-> tip, res |-> res, deep |-> FALSE]

\* mutant: the dupe check is skipped
isDupe_never(live, h) == FALSE

\* dupe check: the header's hash is already in the live headers map
isDupe(live, h) == h.hash \in DOMAIN live

\* liveHeaders.set(header.hash, {header, chainWork})
withEntry(live, h, work) ==
    [x \in DOMAIN live \cup {h.hash} |->
        IF x = h.hash THEN liveEntry(h, work) ELSE live[x]]

\* insertHeader(header): the store and the InsertHeaderResult it produces
insertHeader(live, abh, tip, h) ==
    IF ~validate(h)
    THEN unchangedStore(live, abh, tip, NoResult)
    ELSE IF isDupe(live, h)
    THEN unchangedStore(live, abh, tip, [NoResult EXCEPT !.dupe = TRUE])
    ELSE IF h.previousHash \notin DOMAIN live
    THEN unchangedStore(live, abh, tip, [NoResult EXCEPT !.noPrev = TRUE])
    ELSE IF ~heightFollows(live[h.previousHash], h)
    THEN unchangedStore(live, abh, tip, NoResult)
    ELSE
      LET work  == chainWorkOf(live[h.previousHash], h)
          live1 == withEntry(live, h, work)
      IN  IF exceedsTip(work, live[tip].chainWork)
          THEN LET r == handleReorg(live1, abh, h.hash, tip)
               IN  IF r.done
                   THEN [live |-> r.live, abh |-> r.abh, tip |-> h.hash, deep |-> FALSE,
                         res |-> [NoResult EXCEPT !.added = TRUE, !.isActiveTip = TRUE,
                                     !.reorgDepth = r.depth,
                                     !.deactivatedHeaders = r.deactivated,
                                     !.priorTip = tip]]
                   ELSE [live |-> live1, abh |-> abh, tip |-> tip, deep |-> TRUE,
                         res |-> [NoResult EXCEPT !.added = TRUE, !.priorTip = tip]]
          ELSE [live |-> live1, abh |-> abh, tip |-> tip, deep |-> FALSE,
                res |-> [NoResult EXCEPT !.added = TRUE, !.priorTip = tip]]

----------------------------------------------------------------------------
(* Main thread *)

\* subscribers, in subscription order
headerListeners == <<1, 2>>
reorgListeners == <<3>>

headerNote(l, h) ==
    [kind |-> "header", listener |-> l, depth |-> 0, oldTip |-> NoHash,
     newTip |-> h.hash, deactivated |-> <<>>]

reorgNote(l, h, res) ==
    [kind |-> "reorg", listener |-> l, depth |-> res.reorgDepth,
     oldTip |-> res.priorTip, newTip |-> h.hash,
     deactivated |-> res.deactivatedHeaders]

\* listener calls of the live loop for one processed header
notifications(h, res) ==
    IF res.added /\ res.isActiveTip
    THEN [i \in 1..Len(headerListeners) |-> headerNote(headerListeners[i], h)]
         \o (IF res.reorgDepth > 0
             THEN [i \in 1..Len(reorgListeners) |-> reorgNote(reorgListeners[i], h, res)]
             ELSE <<>>)
    ELSE <<>>

Defects == {"none", "format", "hash", "height"}

\* a header as a live ingestor supplies it (hash and height included), possibly
\* defective: malformed, claiming another header's hash, or a wrong height
ingestedHeader(live, p, b, n, defect) ==
    [previousHash |-> p, bits |-> b, nonce |-> n,
     height |-> (IF p \in DOMAIN live THEN live[p].height + 1 ELSE 1)
                + (IF defect = "height" THEN 1 ELSE 0),
     hash |-> IF defect = "hash" THEN blockHash(p, b, 1 - n) ELSE blockHash(p, b, n),
     wellFormed |-> defect # "format"]

\* a header as a client submits it: no height, no hash
baseHeader(p, b, n, wf) ==
    [previousHash |-> p, bits |-> b, nonce |-> n, height |-> 0, hash |-> NoHash,
     wellFormed |-> wf]

\* the header with the height and hash the client's request carried
fullHeader_asSubmitted(prev, h) == h

\* fullHeader = { ...header, height: prev.height + 1, hash: blockHash(header) }
fullHeader(prev, h) ==
    [h EXCEPT !.height = prev.height + 1,
              !.hash = blockHash(h.previousHash, h.bits, h.nonce)]

\* addLiveHeader: insertHeader on the storage (under the write lock)
addLiveHeader(h) == insertHeader(liveHeaders, activeByHeight, activeTip, h)

hasRoom == Cardinality(DOMAIN liveHeaders) <= MaxHeaders

storeStep(s, h) ==
    /\ hasRoom \/ ~s.res.added
    /\ liveHeaders' = s.live
    /\ activeByHeight' = s.abh
    /\ activeTip' = s.tip
    /\ tooDeep' = IF s.deep THEN tooDeep \cup {h.hash} ELSE tooDeep
    /\ header' = h
    /\ result' = s.res


----------------------------------------------------------------------------
(* Single writer / multi reader lock *)

Readers == 1..NumReaders
Writers == {"insert", "sync"}

\* mutant: a reader does not wait for an active writer
readerWaits_never(wa) == FALSE

\* readers wait if a writer is active
readerWaits(wa) == wa

\* mutant: a waiting writer does not hold back new readers
writerPending_ignored(wq) == FALSE

\* a writer has asked for the lock and is waiting for it
writerPending(wq) == wq # <<>>

\* mutant: a writer does not wait for the readers to finish
writerMayStart_overReaders(rc, wa) == ~wa

\* one writer at a time; writers wait for all readers to finish
writerMayStart(rc, wa) == ~wa /\ rc = 0

\* withReadLock enters at once unless a writer holds the lock or is waiting
readerMayEnter(wa, wq) == ~readerWaits(wa) /\ ~writerPending(wq)

\* mutant: a waiting writer is let in whatever the state of the lock
release_unlocked(rc, wa, wq, rq) ==
    IF wq # <<>>
    THEN [rc |-> rc, wa |-> wa, wq |-> Tail(wq), rq |-> rq,
          writer |-> {Head(wq)}, readers |-> {}]
    ELSE IF rq # <<>> /\ ~readerWaits(wa)
    THEN [rc |-> rc + Len(rq), wa |-> wa, wq |-> wq, rq |-> <<>>,
          writer |-> {}, readers |-> SeqToSet(rq)]
    ELSE [rc |-> rc, wa |-> wa, wq |-> wq, rq |-> rq, writer |-> {}, readers |-> {}]

\* Who is let in when the lock state is (rc, wa, wq, rq): the first waiting
\* writer once the lock is free, else all waiting readers.
release(rc, wa, wq, rq) ==
    IF wq # <<>>
    THEN IF writerMayStart(rc, wa)
         THEN [rc |-> rc, wa |-> TRUE, wq |-> Tail(wq), rq |-> rq,
               writer |-> {Head(wq)}, readers |-> {}]
         ELSE [rc |-> rc, wa |-> wa, wq |-> wq, rq |-> rq, writer |-> {}, readers |-> {}]
    ELSE IF rq # <<>> /\ ~readerWaits(wa)
    THEN [rc |-> rc + Len(rq), wa |-> wa, wq |-> wq, rq |-> <<>>,
          writer |-> {}, readers |-> SeqToSet(rq)]
    ELSE [rc |-> rc, wa |-> wa, wq |-> wq, rq |-> rq, writer |-> {}, readers |-> {}]

\* the lock and the tasks after the lock state became (rc, wa, wq, rq) and the
\* tasks' positions (rp, wp): whoever is let in holds the lock
lockStep(rc, wa, wq, rq, rp, wp) ==
    LET g == release(rc, wa, wq, rq)
    IN  /\ readerCount' = g.rc
        /\ writerActive' = g.wa
        /\ writerQueue' = g.wq
        /\ readerQueue' = g.rq
        /\ rpc' = [r \in Readers |-> IF r \in g.readers THEN "reading" ELSE rp[r]]
        /\ wpc' = [w \in Writers |-> IF w \in g.writer THEN "writing" ELSE wp[w]]

NoPlan == [h |-> NoHeader,
           s |-> [live |-> <<>>, abh |-> <<>>, tip |-> NoHash, res |-> NoResult,
                  deep |-> FALSE]]

\* bulk storage and query replies at construction
TierIdle ==
    /\ bulkFiles = <<>>
    /\ reply = NoReply
    /\ hashReply = NoHashReply

\* the queues and the main thread's variables, the thread at position pos
LoopIdle(pos) ==
    /\ liveQueue = <<>>
    /\ baseQueue = <<>>
    /\ mpc = pos
    /\ inHand = NoHeader
    /\ recursions = 0
    /\ fetched = NoHeader
    /\ delivered = <<>>
    /\ tipLog = <<>>
    /\ intake = 0
    /\ acked = {}

\* the engine started and serving: Server ready
EngineRunning ==
    /\ epc = "listening"
    /\ dpc = "no"
    /\ available = TRUE
    /\ startupError = FALSE
    /\ stopMainThread = FALSE
    /\ liveIngestor = "listening"
    /\ bulkIngestor = "ready"
    /\ storageUp = "ready"
    /\ logged = 0

\* the state outside the main loop's store, the engine serving
\* no bulk synchronisation is running
SyncIdle ==
    /\ spc = "idle"
    /\ chunkNo = 1
    /\ sourceNo = 1
    /\ cache = <<>>
    /\ served = <<>>
    /\ yielded = <<>>
    /\ downloads = {}

\* the polling task is not modelled: the headers come from IngestorPush
PollIdle ==
    /\ ppc = "off"
    /\ remoteHeight = 0
    /\ lastHeight = 0
    /\ pollErrors = 0

NoRead == [height |-> 0, count |-> 0, bytes |-> <<>>]

\* the bulk file manager at construction: no file yet
CacheIdle ==
    /\ memFiles = <<>>
    /\ recency = <<>>
    /\ known = 0
    /\ lastRead = NoRead
    /\ pending = NoRead
    /\ evictedOnce = {}

Triggers == {"initial", "timer", "header"}
NoCall == [trigger |-> "none", outcome |-> "none"]

\* the server's export state at construction, with the CDN switched on or off
ExportIdle(enabled) ==
    /\ enableBulkHeadersCDN = enabled
    /\ isExporting = FALSE
    /\ lastExportedHeight = 0
    /\ xpc = [t \in Triggers |-> "idle"]
    /\ xcur = [t \in Triggers |-> 0]
    /\ exported = <<>>
    /\ lastCall = NoCall
    /\ exportErrors = 0

\* shutdown signals the process handles while one shutdown is in progress
MaxSignals == 2

\* exitCode while the process runs
Running == -1

\* no subscription made, no shutdown signal received, no timer, no CDN server
ServerIdle ==
    /\ subscribers = <<>>
    /\ nextId = 1
    /\ returned = {}
    /\ shpc = [i \in 1..MaxSignals |-> "none"]
    /\ exportInterval = "unset"
    /\ cdnServer = "none"
    /\ exitCode = Running
    /\ loaded = {}

SideIdle == SyncIdle /\ PollIdle /\ CacheIdle /\ ExportIdle(FALSE) /\ ServerIdle

ExtraIdle == TierIdle /\ LoopIdle("wait") /\ EngineRunning /\ SideIdle

LocksIdle ==
    /\ readerCount = 0
    /\ writerActive = FALSE
    /\ writerQueue = <<>>
    /\ readerQueue = <<>>
    /\ rpc = [r \in Readers |-> "idle"]
    /\ seen = [r \in Readers |-> <<>>]
    /\ wpc = [w \in Writers |-> "idle"]
    /\ wplan = NoPlan
    /\ wold = <<>>
    /\ wnew = <<>>
    /\ preIndex = activeByHeight

LockIdle == LocksIdle /\ ExtraIdle

\* a query calls withReadLock
ReaderRequest(r) ==
    /\ rpc[r] = "idle"
    /\ IF readerMayEnter(writerActive, writerQueue)
       THEN /\ readerCount' = readerCount + 1
            /\ rpc' = [rpc EXCEPT ![r] = "reading"]
            /\ UNCHANGED readerQueue
       ELSE /\ readerQueue' = Append(readerQueue, r)
            /\ rpc' = [rpc EXCEPT ![r] = "waiting"]
            /\ UNCHANGED readerCount
    /\ UNCHANGED <<extraVars, storeVars, mainVars, writerActive, writerQueue, seen, wpc, wplan,
                   wold, wnew, preIndex>>

\* the active-chain hash at a height, as a query reads it
readIndex(abh, ht) == IF ht \in DOMAIN abh THEN abh[ht] ELSE NoHash

\* the query reads the next height (findHeaderForHeight under the read lock)
ReaderRead(r) ==
    /\ rpc[r] = "reading"
    /\ Len(seen[r]) < ReadCount
    /\ seen' = [seen EXCEPT ![r] = Append(@, readIndex(activeByHeight, Len(@) + 1))]
    /\ UNCHANGED <<extraVars, storeVars, mainVars, lockVars, rpc, wpc, wplan, wold, wnew, preIndex>>

\* the query's fn completes: the read lock is released
ReaderRelease(r) ==
    /\ rpc[r] = "reading"
    /\ Len(seen[r]) = ReadCount
    /\ seen' = [seen EXCEPT ![r] = <<>>]
    /\ lockStep(readerCount - 1, writerActive, writerQueue, readerQueue,
                [rpc EXCEPT ![r] = "idle"], wpc)
    /\ UNCHANGED <<extraVars, storeVars, mainVars, wplan, wold, wnew, preIndex>>

\* withWriteLock is called: the task joins the writers' queue
writerRequest(w) ==
    /\ wpc[w] = "idle"
    /\ lockStep(readerCount, writerActive, Append(writerQueue, w), readerQueue,
                rpc, [wpc EXCEPT ![w] = "waiting"])
    /\ UNCHANGED <<extraVars, storeVars, mainVars, seen, wold, wnew, preIndex>>

\* the periodic bulk synchronisation asks for the write lock
SyncRequest == writerRequest("sync") /\ UNCHANGED wplan

lockHasRoom == Cardinality(DOMAIN liveHeaders) <= MaxLockHeaders

\* the main thread shifts a header from its queue and asks for the write lock
InsertRequest ==
    /\ writerRequest("insert")
    /\ \E p \in DOMAIN liveHeaders, sh \in Shapes :
        LET h == ingestedHeader(liveHeaders, p, sh[1], sh[2], "none")
        IN  /\ lockHasRoom \/ h.hash \in DOMAIN liveHeaders
            /\ wplan' = [NoPlan EXCEPT !.h = h]

\* syncBulkStorage's fn completes: the write lock is released
SyncRelease ==
    /\ wpc["sync"] = "writing"
    /\ lockStep(readerCount, FALSE, writerQueue, readerQueue,
                rpc, [wpc EXCEPT !["sync"] = "idle"])
    /\ UNCHANGED <<extraVars, storeVars, mainVars, seen, wplan, wold, wnew, preIndex>>

\* insertHeader under the write lock, up to the header's entry in the live map;
\* the chains of a reorg are collected for the steps that follow
InsertBegin ==
    /\ wpc["insert"] = "writing"
    /\ \E s \in {addLiveHeader(wplan.h)} :
       \E l1 \in {IF s.res.added
                   THEN withEntry(liveHeaders, wplan.h,
                                  chainWorkOf(liveHeaders[wplan.h.previousHash], wplan.h))
                   ELSE liveHeaders} :
       \E w \in {IF s.res.isActiveTip
                  THEN walkBack(l1, wplan.h.hash, activeTip, <<>>, <<>>)
                  ELSE [found |-> TRUE, ancestor |-> activeTip, newChain |-> <<>>,
                        oldChain |-> <<>>]} :
            /\ wplan' = [wplan EXCEPT !.s = s]
            /\ liveHeaders' = l1
            /\ wold' = w.oldChain
            /\ wnew' = w.newChain
    /\ preIndex' = activeByHeight
    /\ wpc' = [wpc EXCEPT !["insert"] = "reorg"]
    /\ UNCHANGED <<extraVars, activeByHeight, activeTip, tooDeep, mainVars, lockVars, rpc, seen>>

\* handleReorg: the next old-chain header is removed from activeByHeight
Deactivate ==
    /\ wpc["insert"] = "reorg"
    /\ wold # <<>>
    /\ activeByHeight' = deactivateIndex(liveHeaders, activeByHeight, <<Head(wold)>>)
    /\ liveHeaders' = flipActive(liveHeaders, <<Head(wold)>>, <<>>)
    /\ wold' = Tail(wold)
    /\ UNCHANGED <<extraVars, activeTip, tooDeep, mainVars, lockVars, rpc, seen, wpc, wplan, wnew,
                   preIndex>>

\* handleReorg: the next new-chain header is set in activeByHeight
Activate ==
    /\ wpc["insert"] = "reorg"
    /\ wold = <<>>
    /\ wnew # <<>>
    /\ activeByHeight' = activateIndex(liveHeaders, activeByHeight, <<Head(wnew)>>)
    /\ liveHeaders' = flipActive(liveHeaders, <<>>, <<Head(wnew)>>)
    /\ wnew' = Tail(wnew)
    /\ UNCHANGED <<extraVars, activeTip, tooDeep, mainVars, lockVars, rpc, seen, wpc, wplan, wold,
                   preIndex>>

\* insertHeader returns its result: the write lock is released
InsertEnd ==
    /\ wpc["insert"] = "reorg"
    /\ wold = <<>>
    /\ wnew = <<>>
    /\ activeTip' = wplan.s.tip
    /\ tooDeep' = IF wplan.s.deep THEN tooDeep \cup {wplan.h.hash} ELSE tooDeep
    /\ header' = wplan.h
    /\ result' = wplan.s.res
    /\ notes' = notifications(wplan.h, wplan.s.res)
    /\ wplan' = NoPlan
    /\ lockStep(readerCount, FALSE, writerQueue, readerQueue,
                rpc, [wpc EXCEPT !["insert"] = "idle"])
    /\ UNCHANGED <<extraVars, liveHeaders, activeByHeight, seen, wold, wnew, preIndex>>

ReaderProgress(r) == ReaderRead(r) \/ ReaderRelease(r)
WriterProgress == SyncRelease \/ InsertBegin \/ Deactivate \/ Activate \/ InsertEnd

Init ==
    /\ liveHeaders = [x \in {GenesisHash} |-> genesisEntry]
    /\ activeByHeight = [ht \in {0} |-> GenesisHash]
    /\ activeTip = GenesisHash
    /\ tooDeep = {}
    /\ header = NoHeader
    /\ result = NoResult
    /\ notes = <<>>
    /\ LockIdle

\* the parent the defective inputs build on: the active tip's own parent
defectParent ==
    IF activeTip = GenesisHash THEN GenesisHash ELSE liveHeaders[activeTip].previousHash

\* what the live ingestors may supply: a sound header on any parent, or a
\* defective header beside the active tip
liveInputs ==
    {<<p, sh[1], sh[2], "none">> : p \in DOMAIN liveHeaders \cup {UnknownHash},
                                   sh \in Shapes}
    \cup {<<defectParent, 3, n, d>> : n \in Nonces, d \in Defects \ {"none"}}

\* what clients may submit: any parent; a malformed header beside the active tip
baseInputs ==
    {<<p, sh[1], sh[2], TRUE>> : p \in DOMAIN liveHeaders \cup {UnknownHash},
                                 sh \in Shapes}
    \cup {<<defectParent, 3, n, FALSE>> : n \in Nonces}

\* one pass of the live loop: a header shifted from liveHeaders is inserted and
\* the subscribers are notified
ProcessLiveHeader ==
    \E in \in liveInputs :
        LET h == ingestedHeader(liveHeaders, in[1], in[2], in[3], in[4])
            s == addLiveHeader(h)
        IN  /\ storeStep(s, h)
            /\ notes' = notifications(h, s.res)
            /\ UNCHANGED <<extraVars, lockVars, taskVars>>

\* one pass of the base loop: a client header is completed and inserted only
\* when its previous header is in the live tier
ProcessBaseHeader ==
    \E in \in baseInputs :
        LET h    == baseHeader(in[1], in[2], in[3], in[4])
            prev == findLiveHeaderForBlockHash(liveHeaders, h.previousHash)
        IN  /\ IF prev # NoHeader
               THEN storeStep(addLiveHeader(fullHeader(prev, h)), fullHeader(prev, h))
               ELSE storeStep(unchangedStore(liveHeaders, activeByHeight, activeTip,
                                             NoResult), h)
            /\ notes' = <<>>
            /\ UNCHANGED <<extraVars, lockVars, taskVars>>

Next == ProcessLiveHeader \/ ProcessBaseHeader

Spec == Init /\ [][Next]_vars

\* The store the concurrent queries start from: an active chain of two headers
\* and a one-header side chain, each inserted by insertHeader.
forkedStore ==
    LET g  == [live |-> [x \in {GenesisHash} |-> genesisEntry],
               abh |-> [ht \in {0} |-> GenesisHash], tip |-> GenesisHash]
        a1 == ingestedHeader(g.live, GenesisHash, 3, 0, "none")
        s1 == insertHeader(g.live, g.abh, g.tip, a1)
        a2 == ingestedHeader(s1.live, a1.hash, 3, 0, "none")
        s2 == insertHeader(s1.live, s1.abh, s1.tip, a2)
        b1 == ingestedHeader(s2.live, GenesisHash, 3, 1, "none")
    IN  insertHeader(s2.live, s2.abh, s2.tip, b1)

LockInit ==
    /\ liveHeaders = forkedStore.live
    /\ activeByHeight = forkedStore.abh
    /\ activeTip = forkedStore.tip
    /\ tooDeep = {}
    /\ header = NoHeader
    /\ result = NoResult
    /\ notes = <<>>
    /\ LockIdle

LockNext ==
    \/ \E r \in Readers : ReaderRequest(r)
    \/ \E r \in Readers : ReaderRead(r)
    \/ \E r \in Readers : ReaderRelease(r)
    \/ SyncRequest
    \/ InsertRequest
    \/ SyncRelease
    \/ InsertBegin
    \/ Deactivate
    \/ Activate
    \/ InsertEnd

\* queries and writers under the lock
LockSpec == LockInit /\ [][LockNext]_vars

\* a task that holds the lock runs its fn to completion
LockFairSpec ==
    /\ LockSpec
    /\ \A r \in Readers : WF_vars(ReaderProgress(r))
    /\ WF_vars(WriterProgress)

----------------------------------------------------------------------------
(* Chains, stated from the previousHash links alone *)

\* the headers from x back to the genesis header
RECURSIVE chainOf(_, _)
chainOf(live, x) ==
    IF x \notin DOMAIN live THEN {} ELSE {x} \cup chainOf(live, live[x].previousHash)

\* the common ancestor of x and t: the highest header on both chains
forkOf(live, x, t) ==
    CHOOSE a \in chainOf(live, x) \cap chainOf(live, t) :
        \A b \in chainOf(live, x) \cap chainOf(live, t) : live[b].height <= live[a].height

\* the headers of x's chain above header a
above(live, x, a) == {y \in chainOf(live, x) : live[y].height > live[a].height}

\* a header that passes every validation check, stated on its fields
soundHeader(h) ==
    /\ h.wellFormed
    /\ h.hash \notin dirtyHashes
    /\ h.hash = blockHash(h.previousHash, h.bits, h.nonce)

\* this step stored the header the main thread processed
Inserted == header'.hash \notin DOMAIN liveHeaders /\ header'.hash \in DOMAIN liveHeaders'

\* this step stored a header with more chainWork than the active tip had
Overtakes ==
    Inserted /\ liveHeaders'[header'.hash].chainWork > liveHeaders[activeTip].chainWork

\* the old chain's headers above the common ancestor with the stored header
oldAbove == above(liveHeaders', activeTip, forkOf(liveHeaders', header'.hash, activeTip))
newAbove == above(liveHeaders', header'.hash, forkOf(liveHeaders', header'.hash, activeTip))

storeUnchanged ==
    /\ liveHeaders' = liveHeaders
    /\ activeByHeight' = activeByHeight
    /\ activeTip' = activeTip

\* the stored header is an inactive side-chain entry and nothing else changed
storedAsSideChain ==
    /\ activeTip' = activeTip
    /\ activeByHeight' = activeByHeight
    /\ DOMAIN liveHeaders' = DOMAIN liveHeaders \cup {header'.hash}
    /\ \A x \in DOMAIN liveHeaders : liveHeaders'[x] = liveHeaders[x]
    /\ ~liveHeaders'[header'.hash].isActive
    /\ result'.added /\ ~result'.isActiveTip /\ result'.reorgDepth = 0
    /\ result'.deactivatedHeaders = <<>>

----------------------------------------------------------------------------
(* C1: reorg correctness.  When the stored header has more chainWork than    *)
(* the active tip and the common ancestor lies d <= reorgHeightThreshold     *)
(* blocks below the tip, the result is added, isActiveTip, reorgDepth = d,   *)
(* deactivatedHeaders = the old chain's headers above the ancestor, priorTip *)
(* = the old tip; afterwards findHeaderForHeight gives the new chain's       *)
(* header at every height above the ancestor and the old chain's at none.    *)
ReorgCorrect ==
    [][ (Overtakes /\ Cardinality(oldAbove) <= reorgHeightThreshold) =>
          LET fork == forkOf(liveHeaders', header'.hash, activeTip)
          IN  /\ result'.added /\ result'.isActiveTip
              /\ result'.reorgDepth = Cardinality(oldAbove)
              /\ SeqToSet(result'.deactivatedHeaders) = oldAbove
              /\ Len(result'.deactivatedHeaders) = Cardinality(oldAbove)
              /\ result'.priorTip = activeTip
              /\ activeTip' = header'.hash
              /\ \A y \in newAbove :
                    findHeaderForHeight(liveHeaders', activeByHeight',
                                        liveHeaders'[y].height).hash = y
              /\ \A ht \in DOMAIN activeByHeight' :
                    IF ht > liveHeaders'[fork].height
                    THEN activeByHeight'[ht] \in newAbove
                    ELSE ht \in DOMAIN activeByHeight
                         /\ activeByHeight'[ht] = activeByHeight[ht]
      ]_vars

\* a reorg two blocks deep onto a chain of more than one header was carried out
ReorgCorrectWitness ==
    /\ result.added /\ result.isActiveTip
    /\ result.reorgDepth = 2
    /\ ~liveHeaders[result.priorTip].isActive
    /\ liveHeaders[header.hash].previousHash \notin chainOf(liveHeaders, result.priorTip)

(* C2: reorg rejection.  When the common ancestor lies more than             *)
(* reorgHeightThreshold blocks below the active tip, the stored header stays *)
(* an inactive side-chain entry whatever its chainWork: the active tip and   *)
(* every activeByHeight entry are unchanged and no subscriber is called.     *)
ReorgRejected ==
    [][ (Overtakes /\ Cardinality(oldAbove) > reorgHeightThreshold) =>
          storedAsSideChain /\ notes' = <<>>
      ]_vars

\* a header with more chainWork than the tip was refused and is in the live tier
ReorgRejectedWitness ==
    /\ header.hash \in tooDeep
    /\ result.added /\ ~result.isActiveTip
    /\ header.hash \in DOMAIN liveHeaders
    /\ liveHeaders[header.hash].chainWork > liveHeaders[activeTip].chainWork
    /\ ~liveHeaders[header.hash].isActive

FirstSeenWins ==
    [][ (Inserted /\ liveHeaders'[header'.hash].chainWork
                       <= liveHeaders[activeTip].chainWork) =>
          storedAsSideChain /\ notes' = <<>>
      ]_vars

\* a second tip of exactly the active tip's chainWork was stored and is inactive
FirstSeenWinsWitness ==
    /\ result.added /\ ~result.isActiveTip
    /\ header.hash \in DOMAIN liveHeaders
    /\ header.hash # activeTip
    /\ liveHeaders[header.hash].chainWork = liveHeaders[activeTip].chainWork
    /\ liveHeaders[header.hash].height = liveHeaders[activeTip].height

(* C8: every stored header is one above its previous header and its          *)
(* chainWork is the previous header's plus the work of its bits, so along    *)
(* every stored chain heights rise by one and chainWork never decreases.     *)
ChainLinked ==
    \A x \in DOMAIN liveHeaders \ {GenesisHash} :
        /\ liveHeaders[x].previousHash \in DOMAIN liveHeaders
        /\ liveHeaders[x].height = liveHeaders[liveHeaders[x].previousHash].height + 1
        /\ liveHeaders[x].chainWork =
              liveHeaders[liveHeaders[x].previousHash].chainWork
              + blockWork(liveHeaders[x].bits)
        /\ liveHeaders[x].chainWork >= liveHeaders[liveHeaders[x].previousHash].chainWork

\* a side chain and an active chain, each at least two headers long
ChainLinkedWitness ==
    \E x, y \in DOMAIN liveHeaders :
        /\ liveHeaders[x].height >= 2 /\ liveHeaders[y].height >= 2
        /\ liveHeaders[x].isActive /\ ~liveHeaders[y].isActive
        /\ liveHeaders[x].bits # liveHeaders[y].bits

(* C9: idempotence.  Processing a header that is already known gives         *)
(* dupe = true, added = false and changes nothing: live tier, activeByHeight *)
(* and active tip are unchanged and no subscriber is called.                 *)
DupeChangesNothing ==
    [][ (header'.hash \in DOMAIN liveHeaders /\ soundHeader(header')) =>
          /\ result'.dupe /\ ~result'.added
          /\ storeUnchanged
          /\ notes' = <<>>
      ]_vars

\* the active tip and an inactive header were each submitted again
DupeWitness ==
    /\ result.dupe
    /\ header.hash \in DOMAIN liveHeaders
    /\ \/ header.hash = activeTip /\ tooDeep # {}
       \/ ~liveHeaders[header.hash].isActive

(* C10: a rejected insert leaves the store unchanged.  A header that fails   *)
(* validation (malformed, claimed hash not the recomputed hash, hash on the  *)
(* deny-list) or whose previous header is unknown changes neither the live   *)
(* tier nor activeByHeight nor the active tip, and no subscriber is called;  *)
(* the unknown previous header is reported as noPrev.                        *)
RejectChangesNothing ==
    [][ (header' # NoHeader /\ header'.hash # NoHash =>
           /\ ~soundHeader(header') =>
                 storeUnchanged /\ notes' = <<>> /\ ~result'.added /\ ~result'.dupe
           /\ (soundHeader(header') /\ header'.hash \notin DOMAIN liveHeaders
               /\ header'.previousHash \notin DOMAIN liveHeaders) =>
                 storeUnchanged /\ notes' = <<>> /\ ~result'.added /\ result'.noPrev)
      ]_vars

\* a header claiming the hash of a known header, with other fields, was rejected
RejectWitness ==
    /\ header # NoHeader
    /\ ~hashMatches(header)
    /\ header.hash = activeTip
    /\ ~result.added /\ ~result.dupe

----------------------------------------------------------------------------
(* Queries and writers under the lock *)

\* activeByHeight as the insert in hand leaves it
postIndex == IF wpc["insert"] = "reorg" THEN wplan.s.abh ELSE activeByHeight

\* what a query has read so far is what the index idx holds at those heights
readsFrom(r, idx) == \A i \in 1..Len(seen[r]) : seen[r][i] = readIndex(idx, i)

(* C5: snapshot isolation of reads.  All the heights a query reads under     *)
(* withReadLock come from one state of the active chain: the one before the  *)
(* insert (reorg) last run under withWriteLock, or the one after it; never   *)
(* some heights switched and others stale or missing.                        *)
SnapshotReads ==
    \A r \in Readers :
        rpc[r] = "reading" => readsFrom(r, preIndex) \/ readsFrom(r, postIndex)

\* a query has read both heights of the chain a two-block reorg put in place
\* while the next insert is waiting for the lock
SnapshotReadsWitness ==
    /\ result.reorgDepth = 2
    /\ wpc["insert"] = "waiting"
    /\ \E r \in Readers :
          /\ rpc[r] = "reading"
          /\ Len(seen[r]) = ReadCount
          /\ seen[r][ReadCount] = activeTip
          /\ seen[r][1] # preIndex[1]

lockHolders == {w \in Writers : wpc[w] \in {"writing", "reorg"}}
lockReaders == {r \in Readers : rpc[r] = "reading"}

(* C6: lock exclusion.  A writer never holds the lock together with a reader *)
(* or another writer; a reader that asks while no writer holds or waits is   *)
(* admitted at once, also when other readers hold the lock.                  *)
LockExclusion ==
    /\ [](/\ Cardinality(lockHolders) <= 1
          /\ lockHolders # {} => lockReaders = {}
          /\ writerActive <=> lockHolders # {}
          /\ readerCount = Cardinality(lockReaders))
    /\ [][\A r \in Readers :
             (rpc[r] = "idle" /\ rpc'[r] # "idle" /\ lockHolders = {}
              /\ \A w \in Writers : wpc[w] # "waiting")
             => rpc'[r] = "reading"]_vars

\* two readers hold the lock together; both writers wait behind them
LockExclusionWitness ==
    /\ Cardinality(lockReaders) = 2
    /\ \A w \in Writers : wpc[w] = "waiting"

(* C7: writer priority.  While a writer waits for the lock no reader         *)
(* acquires it, so readers that arrive after the writer do not overtake it,  *)
(* and every waiting writer eventually holds the lock however the readers    *)
(* keep arriving.                                                            *)
WriterPriority ==
    /\ [][\A r \in Readers :
             (rpc[r] # "reading" /\ rpc'[r] = "reading")
             => \A w \in Writers : wpc[w] # "waiting"]_vars
    /\ \A w \in Writers : (wpc[w] = "waiting") ~> (wpc[w] \in {"writing", "reorg"})

\* a writer waits behind a reader, and a reader that came later waits behind it
WriterPriorityWitness ==
    /\ wpc["insert"] = "waiting"
    /\ \E r1, r2 \in Readers : rpc[r1] = "reading" /\ rpc[r2] = "waiting"

\* the steps of an insert under the lock end in the store insertHeader gives
StepwiseIsInsertHeader ==
    (wpc["insert"] = "reorg" /\ wold = <<>> /\ wnew = <<>>)
        => liveHeaders = wplan.s.live /\ activeByHeight = wplan.s.abh

----------------------------------------------------------------------------
(* Bulk storage, migration from live to bulk, and range queries *)

\* liveHeightThreshold option (default 2000), scaled to the model
liveHeightThreshold == 2
\* headers per bulk file (default 100000), scaled to the model
maxPerFile == 2
\* highest height the tiered store is grown to
MaxTierHeight == 5
\* largest count a range query asks for
MaxCount == 3
\* number of live entries up to which the tiered store takes a new header
MaxTierHeaders == 4

\* units of one serialized header; every header has the same size (80 bytes)
HeaderSize == 3

\* the fixed-size wire form: the hashed fields in order; height, hash and
\* chainWork are not part of it
serializeBaseBlockHeader(h) == <<h.previousHash, h.bits, h.nonce>>

\* a header read back from its wire form at a known height
deserializeBaseBlockHeader(bytes, height) ==
    [previousHash |-> bytes[1], bits |-> bytes[2], nonce |-> bytes[3],
     height |-> height, hash |-> blockHash(bytes[1], bytes[2], bytes[3]),
     wellFormed |-> TRUE]

\* file number = height / maxPerFile
fileNumber(height) == height \div maxPerFile

\* mutant: the position in the file is ignored, the file's first header is read
fileOffset_ignored(height) == 0

\* position of a height's header within its file
fileOffset(height) == height % maxPerFile

\* number of headers the bulk files hold: heights 0 .. bulkCount - 1
bulkCount(files) ==
    IF DOMAIN files = {} THEN 0
    ELSE LET last == Cardinality(DOMAIN files) - 1
         IN  last * maxPerFile + Len(files[last]) \div HeaderSize

\* BulkFileDataManager.getHeader: the bytes of the header at a height
bulkHeaderBytes(files, height) ==
    LET f == files[fileNumber(height)]
        o == fileOffset(height)
    IN  SubSeq(f, o * HeaderSize + 1, (o + 1) * HeaderSize)

\* the height is served by one of the tiers
hasHeight(files, abh, height) == height < bulkCount(files) \/ height \in DOMAIN abh

\* mutant: the first live height is looked up in the bulk files
headerBytes_overBoundary(files, live, abh, height) ==
    IF height <= bulkCount(files) /\ bulkCount(files) > 0
    THEN bulkHeaderBytes(files, IF height = bulkCount(files) THEN height - 1 ELSE height)
    ELSE serializeBaseBlockHeader(live[abh[height]])

\* the serialized active-chain header at a height, from the bulk files or
\* through activeByHeight from the live map
headerBytes(files, live, abh, height) ==
    IF height < bulkCount(files) THEN bulkHeaderBytes(files, height)
    ELSE serializeBaseBlockHeader(live[abh[height]])

\* findHeaderForHeight over both tiers
findHeaderForHeightInTiers(files, live, abh, height) ==
    IF height < bulkCount(files)
    THEN deserializeBaseBlockHeader(bulkHeaderBytes(files, height), height)
    ELSE findHeaderForHeight(live, abh, height)

\* mutant: the header takes the place of the last file's content
appendBulk_overwrite(files, bytes) ==
    LET fn == fileNumber(bulkCount(files))
    IN  [f \in DOMAIN files \cup {fn} |-> IF f = fn THEN bytes ELSE files[f]]

\* mutant: the header is written at the start of the last file
appendBulk_atStart(files, bytes) ==
    LET fn == fileNumber(bulkCount(files))
    IN  [f \in DOMAIN files \cup {fn} |->
            IF f = fn
            THEN bytes \o (IF fn \in DOMAIN files THEN files[fn] ELSE <<>>)
            ELSE files[f]]

\* one more serialized header at the end of the bulk files
appendBulk(files, bytes) ==
    LET fn == fileNumber(bulkCount(files))
    IN  [f \in DOMAIN files \cup {fn} |->
            IF f = fn
            THEN (IF fn \in DOMAIN files THEN files[fn] ELSE <<>>) \o bytes
            ELSE files[f]]

\* the heights bulkMigration moves: older than liveHeightThreshold below the tip
migratingHeights(files, live, tip) ==
    {ht \in bulkCount(files)..MaxTierHeight :
        live[tip].height - ht > liveHeightThreshold}

\* the bulk files after the active headers of heights lo..hi were appended
RECURSIVE migrateFrom(_, _, _, _, _)
migrateFrom(files, live, abh, lo, hi) ==
    IF lo > hi THEN files
    ELSE migrateFrom(appendBulk(files, serializeBaseBlockHeader(live[abh[lo]])),
                     live, abh, lo + 1, hi)

\* the entry with hash x is on the active chain
onActiveChain(live, abh, x) ==
    live[x].height \in DOMAIN abh /\ abh[live[x].height] = x

\* depth of the entry with hash x below the active tip
depthBelowTip(live, tip, x) == live[tip].height - live[x].height

\* mutant: entries off the active chain are discarded as soon as a migration runs
evictable_always(live, tip, x) == TRUE

\* an entry off the active chain is discarded once it lies more than
\* reorgHeightThreshold below the active tip
evictable(live, tip, x) == depthBelowTip(live, tip, x) > reorgHeightThreshold

\* bulkMigration: active entries older than liveHeightThreshold move to the bulk
\* files; entries off the active chain are discarded once outside
\* reorgHeightThreshold
bulkMigration(files, live, abh, tip) ==
    LET hs   == migratingHeights(files, live, tip)
        lo   == bulkCount(files)
        hi   == lo + Cardinality(hs) - 1
        keep == {x \in DOMAIN live :
                    IF onActiveChain(live, abh, x) THEN live[x].height \notin hs
                    ELSE ~evictable(live, tip, x)}
    IN  [files |-> migrateFrom(files, live, abh, lo, hi),
         live |-> [x \in keep |-> live[x]],
         abh |-> [ht \in DOMAIN abh \ hs |-> abh[ht]]]

\* the serialized headers of heights height .. height + count - 1, concatenated
RECURSIVE headersFrom(_, _, _, _, _)
headersFrom(files, live, abh, height, count) ==
    IF count = 0 THEN <<>>
    ELSE headerBytes(files, live, abh, height)
         \o headersFrom(files, live, abh, height + 1, count - 1)

\* a height of the requested range is on neither tier
missingHeight(files, abh, height, count) ==
    \E i \in 0..(count - 1) : ~hasHeight(files, abh, height + i)

\* getHeaders(height, count): count serialized headers, concatenated in
\* ascending height; the call fails when a requested height is missing
getHeaders(files, live, abh, height, count) ==
    IF missingHeight(files, abh, height, count)
    THEN [height |-> height, count |-> count, ok |-> FALSE, value |-> <<>>]
    ELSE [height |-> height, count |-> count, ok |-> TRUE,
          value |-> headersFrom(files, live, abh, height, count)]

\* the (bits, nonce) pairs of the headers supplied to the tiered store
TierShapes == {<<1, 0>>, <<3, 1>>}

\* the main thread inserts a header over the tiered store
ExtendStore ==
    /\ \E p \in DOMAIN liveHeaders, sh \in TierShapes :
        LET h == ingestedHeader(liveHeaders, p, sh[1], sh[2], "none")
            s == addLiveHeader(h)
        IN  /\ h.height <= MaxTierHeight
            /\ Cardinality(DOMAIN liveHeaders) <= MaxTierHeaders \/ ~s.res.added
            /\ storeStep(s, h)
            /\ notes' = notifications(h, s.res)
    /\ reply' = NoReply
    /\ hashReply' = NoHashReply
    /\ UNCHANGED <<lockVars, taskVars, loopVars, lifeVars, bulkFiles, sideVars>>

\* the main thread runs bulkMigration (under the write lock)
BulkMigration ==
    /\ \E m \in {bulkMigration(bulkFiles, liveHeaders, activeByHeight, activeTip)} :
        /\ m.files # bulkFiles \/ DOMAIN m.live # DOMAIN liveHeaders
        /\ bulkFiles' = m.files
        /\ liveHeaders' = m.live
        /\ activeByHeight' = m.abh
    /\ tooDeep' = tooDeep \cap DOMAIN liveHeaders'
    /\ reply' = NoReply
    /\ hashReply' = NoHashReply
    /\ UNCHANGED <<activeTip, mainVars, lockVars, taskVars, loopVars, lifeVars, sideVars>>

\* a client asks for a range of headers
GetHeaders ==
    /\ \E height \in 0..MaxTierHeight, count \in 1..MaxCount :
        reply' = getHeaders(bulkFiles, liveHeaders, activeByHeight, height, count)
    /\ hashReply' = NoHashReply
    /\ UNCHANGED <<storeVars, mainVars, lockVars, taskVars, loopVars, lifeVars, bulkFiles, sideVars>>

\* the hashes of the headers in the bulk files
bulkHashes(files) ==
    {deserializeBaseBlockHeader(bulkHeaderBytes(files, ht), ht).hash :
        ht \in 0..(bulkCount(files) - 1)}

\* a client asks for a header by its hash: a live, a migrated or an unknown one
FindHeaderForBlockHash ==
    /\ \E hash \in DOMAIN liveHeaders \cup bulkHashes(bulkFiles) \cup {UnknownHash} :
        hashReply' = [hash |-> hash,
                      value |-> findLiveHeaderForBlockHash(liveHeaders, hash)]
    /\ reply' = NoReply
    /\ UNCHANGED <<storeVars, mainVars, lockVars, taskVars, loopVars, lifeVars, bulkFiles, sideVars>>

TierNext == ExtendStore \/ BulkMigration \/ GetHeaders \/ FindHeaderForBlockHash

\* the tiered store: inserts, migration and range queries
TierSpec == Init /\ [][TierNext]_vars

----------------------------------------------------------------------------
\* the i-th header (from 0) of a concatenation of serialized headers
chunk(value, i) == SubSeq(value, i * HeaderSize + 1, (i + 1) * HeaderSize)

\* the wire form of a live entry, stated on its fields
wireOf(e) == <<e.previousHash, e.bits, e.nonce>>

GetHeadersExact ==
    reply # NoReply =>
        LET onChain(ht) == ht < bulkCount(bulkFiles) \/ ht \in DOMAIN activeByHeight
        IN  /\ reply.ok <=> \A i \in 0..(reply.count - 1) : onChain(reply.height + i)
            /\ ~reply.ok => reply.value = <<>>
            /\ reply.ok =>
                /\ Len(reply.value) = reply.count * HeaderSize
                /\ \A i \in 0..(reply.count - 1) :
                      (reply.height + i) \in DOMAIN activeByHeight =>
                          chunk(reply.value, i)
                            = wireOf(liveHeaders[activeByHeight[reply.height + i]])
                /\ \A i \in 1..(reply.count - 1) :
                      chunk(reply.value, i)[1]
                        = blockHash(chunk(reply.value, i - 1)[1],
                                    chunk(reply.value, i - 1)[2],
                                    chunk(reply.value, i - 1)[3])

\* a range that starts in the bulk files and ends in the live map was served
GetHeadersExactWitness ==
    /\ reply.ok /\ reply.count = MaxCount
    /\ reply.height < bulkCount(bulkFiles)
    /\ reply.height + reply.count - 1 \in DOMAIN activeByHeight

\* a range reaching above the tip was refused
GetHeadersRefusedWitness ==
    /\ reply # NoReply /\ ~reply.ok
    /\ bulkCount(bulkFiles) > 0
    /\ reply.height \in DOMAIN activeByHeight

----------------------------------------------------------------------------
(* The main thread over its two queues *)

\* most headers the ingestors and the clients hand in
MaxIntake == 3

\* parent fetches allowed for one header (addLiveRecursionLimit)
addLiveRecursionLimit == 2

\* the shape of the one header the store can miss while the network has it
MissingShape == <<3, 1>>

\* the header the network serves for a hash: its hashed fields are those the
\* hash was computed from
getMissingBlockHeader(hash, height) ==
    [previousHash |-> hash \div HashRadix,
     bits |-> (hash % HashRadix) \div 2,
     nonce |-> hash % 2,
     height |-> height, hash |-> hash, wellFormed |-> TRUE]

\* a header whose previous header is not stored yet: the child of a missing
\* child of p
orphanHeader(live, p, b, n) ==
    [previousHash |-> blockHash(p, MissingShape[1], MissingShape[2]),
     bits |-> b, nonce |-> n,
     height |-> live[p].height + 2,
     hash |-> blockHash(blockHash(p, MissingShape[1], MissingShape[2]), b, n),
     wellFormed |-> TRUE]

\* what a live ingestor may push: a sound header on a stored parent, or a
\* header that arrives before its parent
pushInputs ==
    {ingestedHeader(liveHeaders, p, sh[1], sh[2], "none") :
        p \in DOMAIN liveHeaders, sh \in TierShapes}
    \cup {orphanHeader(liveHeaders, activeTip, sh[1], sh[2]) : sh \in TierShapes}

\* what a client may submit: a header on a stored parent or on an unknown one
submitInputs ==
    {baseHeader(p, sh[1], sh[2], TRUE) :
        p \in DOMAIN liveHeaders \cup {UnknownHash}, sh \in TierShapes}

\* recursions < addLiveRecursionLimit
chaseAllowed(n) == n < addLiveRecursionLimit

\* the count of fetches made for the header in hand
chaseStep(n) == n + 1

\* the count starts again with the next header
chaseReset == 0

\* the tips the store has had, extended when the step changes the tip
tipLogAfter(log, old, new) == IF new # old THEN Append(log, new) ELSE log

\* a live ingestor pushes a header on liveHeaders
IngestorPush ==
    /\ intake < MaxIntake
    /\ \E h \in pushInputs : liveQueue' = Append(liveQueue, h)
    /\ intake' = intake + 1
    /\ UNCHANGED <<storeVars, mainVars, lockVars, taskVars, tierVars, lifeVars, baseQueue, mpc,
                   inHand, recursions, fetched, delivered, tipLog, acked, sideVars>>

\* POST /addHeaderHex: the header is queued on baseHeaders and the call returns
\* success at once
ClientSubmit ==
    /\ intake < MaxIntake
    /\ \E h \in submitInputs :
        /\ baseQueue' = Append(baseQueue, h)
        /\ acked' = acked \cup {h}
    /\ intake' = intake + 1
    /\ UNCHANGED <<storeVars, mainVars, lockVars, taskVars, tierVars, lifeVars, liveQueue, mpc,
                   inHand, recursions, fetched, delivered, tipLog, sideVars>>

\* mutant: the base loop is never entered
baseCondition_skipped ==
    /\ inHand' = NoHeader
    /\ mpc' = "wait"
    /\ UNCHANGED baseQueue

\* while (header = baseHeaders.shift()), and the wait when it gives nothing
baseCondition ==
    IF baseQueue # <<>>
    THEN /\ inHand' = Head(baseQueue)
         /\ baseQueue' = Tail(baseQueue)
         /\ mpc' = "baseInsert"
    ELSE /\ inHand' = NoHeader
         /\ mpc' = "wait"
         /\ UNCHANGED baseQueue

\* while (header = liveHeaders.shift()) on the live queue lq; when it gives
\* nothing the base loop is entered with no await in between
liveCondition(lq) ==
    IF lq # <<>>
    THEN /\ inHand' = Head(lq)
         /\ liveQueue' = Tail(lq)
         /\ mpc' = "insert"
         /\ UNCHANGED baseQueue
    ELSE /\ liveQueue' = lq
         /\ baseCondition

\* the body of the live loop left without fetching: the subscribers are called
liveDone(h, res) ==
    /\ notes' = notifications(h, res)
    /\ delivered' = delivered \o notifications(h, res)
    /\ recursions' = chaseReset
    /\ fetched' = NoHeader
    /\ liveCondition(liveQueue)

\* the noPrev branch with the previous header fetched: the header is put back,
\* header is set to the fetched one, and continue goes to the loop condition
liveChase(h, prevHeader) ==
    /\ notes' = <<>>
    /\ recursions' = chaseStep(recursions)
    /\ fetched' = prevHeader
    /\ liveCondition(<<h>> \o liveQueue)
    /\ UNCHANGED delivered

\* the body of the live loop for the header in hand, up to the next shift
LiveInsert ==
    /\ mpc = "insert"
    /\ \E s \in {addLiveHeader(inHand)} :
        /\ storeStep(s, inHand)
        /\ tipLog' = tipLogAfter(tipLog, activeTip, s.tip)
        /\ IF s.res.noPrev /\ chaseAllowed(recursions)
           THEN \E prevHeader \in {getMissingBlockHeader(inHand.previousHash,
                                                         inHand.height - 1), NoHeader} :
                    IF prevHeader # NoHeader
                    THEN liveChase(inHand, prevHeader)
                    ELSE liveDone(inHand, s.res)
           ELSE liveDone(inHand, s.res)
    /\ UNCHANGED <<lockVars, taskVars, tierVars, lifeVars, intake, acked, sideVars>>

\* the body of the base loop for the header in hand, up to the next shift
BaseInsert ==
    /\ mpc = "baseInsert"
    /\ \E prev \in {findLiveHeaderForBlockHash(liveHeaders, inHand.previousHash)} :
        IF prev # NoHeader
        THEN /\ storeStep(addLiveHeader(fullHeader(prev, inHand)), fullHeader(prev, inHand))
             /\ tipLog' = tipLogAfter(tipLog, activeTip,
                                      addLiveHeader(fullHeader(prev, inHand)).tip)
        ELSE /\ storeStep(unchangedStore(liveHeaders, activeByHeight, activeTip, NoResult),
                          inHand)
             /\ UNCHANGED tipLog
    /\ notes' = <<>>
    /\ baseCondition
    /\ UNCHANGED <<lockVars, taskVars, tierVars, lifeVars, liveQueue, recursions, fetched,
                   delivered, intake, acked, sideVars>>

\* await wait(1000), then the outer loop starts over with the live loop
Wait ==
    /\ mpc = "wait"
    /\ IF stopMainThread
       THEN /\ mpc' = "ended"
            /\ UNCHANGED <<inHand, liveQueue, baseQueue>>
       ELSE liveCondition(liveQueue)
    /\ UNCHANGED <<storeVars, mainVars, lockVars, taskVars, tierVars, lifeVars, recursions,
                   fetched, delivered, tipLog, intake, acked, sideVars>>

MainStep == LiveInsert \/ BaseInsert \/ Wait

LoopNext == IngestorPush \/ ClientSubmit \/ MainStep

LoopSpec == Init /\ [][LoopNext]_vars

LoopFairSpec == LoopSpec /\ WF_vars(MainStep)

----------------------------------------------------------------------------
(* The main thread's queues, chase and notifications *)

\* the step shifts a header from baseHeaders
basePopped == Len(baseQueue') < Len(baseQueue)

(* C12: queue priority.  The main loop shifts a client-submitted base header *)
(* only when the live queue is empty: no base header is taken up while a     *)
(* live-ingested header waits in liveHeaders.                                *)
QueuePriority == [][basePopped => liveQueue = <<>> /\ liveQueue' = <<>>]_vars

\* the base loop is entered only from an empty live queue (the part of C12
\* the loop does keep): a base header taken up after a live pass or the wait
BaseLoopEntered ==
    [][basePopped /\ mpc # "baseInsert" => liveQueue' = <<>>]_vars

\* the step is a pass of the live loop's body, of the base loop's body
liveProcessed == mpc = "insert" /\ intake' = intake
baseProcessed == mpc = "baseInsert" /\ intake' = intake

headerCalls(ns) == SelectSeq(ns, LAMBDA n : n.kind = "header")
reorgCalls(ns) == SelectSeq(ns, LAMBDA n : n.kind = "reorg")
calledListeners(ns) == {ns[i].listener : i \in 1..Len(ns)}

\* the listener calls a processed header is to cause, given its insert result
notifiedAsResult ==
    LET tip   == result'.added /\ result'.isActiveTip
        reorg == tip /\ result'.reorgDepth > 0
    IN  /\ calledListeners(headerCalls(notes'))
             = IF tip THEN SeqToSet(headerListeners) ELSE {}
        /\ calledListeners(reorgCalls(notes'))
             = IF reorg THEN SeqToSet(reorgListeners) ELSE {}
        /\ Len(notes') = Cardinality(calledListeners(notes'))
        /\ \A i \in 1..Len(notes') : notes'[i].newTip = header'.hash
        /\ \A i \in 1..Len(notes') :
             notes'[i].kind = "reorg" =>
                 /\ notes'[i].depth = result'.reorgDepth
                 /\ notes'[i].oldTip = result'.priorTip
                 /\ notes'[i].deactivated = result'.deactivatedHeaders

(* C13: notification condition.  For each header the main loop processes the *)
(* header subscribers are called iff the insert result has added and         *)
(* isActiveTip, and the reorg subscribers iff also reorgDepth > 0, with      *)
(* depth = reorgDepth, oldTip = priorTip, newTip = the inserted header and   *)
(* the deactivated headers; any other outcome calls no one.                  *)
NotificationCondition == [][liveProcessed \/ baseProcessed => notifiedAsResult]_vars

\* C13 for the headers of the live queue alone
LiveNotificationCondition == [][liveProcessed => notifiedAsResult]_vars

\* the tips the listener l was given, in the order of the calls
tipsSeen(l) ==
    LET calls == SelectSeq(delivered, LAMBDA n : n.kind = "header" /\ n.listener = l)
    IN  [i \in 1..Len(calls) |-> calls[i].newTip]

\* the header calls are made round by round in subscription order
inSubscriptionOrder ==
    LET calls == headerCalls(delivered)
        N     == Len(headerListeners)
    IN  \A i \in 1..Len(calls) :
            /\ calls[i].listener = headerListeners[((i - 1) % N) + 1]
            /\ calls[i].newTip = calls[i - ((i - 1) % N)].newTip

\* a reorg call follows the header calls of the same header directly
reorgAfterHeader ==
    \A j \in 1..Len(delivered) :
        delivered[j].kind = "reorg" =>
            /\ j > 1
            /\ delivered[j - 1].newTip = delivered[j].newTip
            /\ delivered[j - 1].kind = "header"
                   => delivered[j - 1].listener = headerListeners[Len(headerListeners)]

(* C14: notification ordering.  For one header the subscribers are called in *)
(* subscription order, the calls for different headers follow the order in   *)
(* which the main loop processed them, all calls for a header precede the    *)
(* next insert, and so the tips a subscriber sees are the active-tip changes *)
(* of the store, in order.                                                   *)
NotificationOrder ==
    /\ inSubscriptionOrder
    /\ reorgAfterHeader
    /\ \A i \in 1..Len(headerListeners) : tipsSeen(headerListeners[i]) = tipLog

RECURSIVE isSubsequence(_, _)
isSubsequence(a, b) ==
    IF a = <<>> THEN TRUE
    ELSE IF b = <<>> THEN FALSE
    ELSE IF Head(a) = Head(b) THEN isSubsequence(Tail(a), Tail(b))
    ELSE isSubsequence(a, Tail(b))

\* the ordering alone: every subscriber sees tip changes of the store in their
\* order, possibly not all of them
NotificationOrderOfCalls ==
    /\ inSubscriptionOrder
    /\ reorgAfterHeader
    /\ \A i \in 1..Len(headerListeners) :
           isSubsequence(tipsSeen(headerListeners[i]), tipLog)

\* the chase keeps to its limit
ChaseBounded == recursions <= addLiveRecursionLimit

(* C15: bounded ancestor chase.  After a noPrev result the missing parent is *)
(* fetched, the header is put back at the front of the live queue and the    *)
(* parent is the header processed next; no chase makes more than             *)
(* addLiveRecursionLimit fetches.                                            *)
AncestorChase ==
    /\ ChaseBounded
    /\ fetched # NoHeader =>
           /\ mpc = "insert"
           /\ inHand = fetched
           /\ liveQueue # <<>>
           /\ Head(liveQueue).previousHash = fetched.hash

\* what the loop does after a fetch: the same header is in hand again
ChaseRetries ==
    fetched # NoHeader => mpc = "insert" /\ inHand.previousHash = fetched.hash

\* the main loop always comes back to its wait: no header is retried forever
LoopProceeds == []<>(mpc = "wait")

\* a chased header is dropped at the limit: its processing ends with the store
\* unchanged and the count back at its start
ChaseDropped ==
    [][liveProcessed /\ recursions = addLiveRecursionLimit /\ result'.noPrev
          => /\ recursions' = chaseReset
             /\ fetched' = NoHeader
             /\ header'.hash \notin DOMAIN liveHeaders'
             /\ Len(liveQueue') <= Len(liveQueue)]_vars

\* the header a client submitted, as the queue holds it
asSubmitted(h) == [h EXCEPT !.height = 0, !.hash = NoHash]

(* C16: a client-submitted base header is inserted only if its previousHash  *)
(* is in the live tier, and then with height = the previous header's + 1 and *)
(* a hash computed by the server; with an unknown previous header it is      *)
(* ignored: no parent fetch, no change of the store, no notification.  The   *)
(* submit call has returned success before either.                           *)
BaseHeaderHandling ==
    [][baseProcessed =>
         /\ inHand \in acked
         /\ asSubmitted(header') = inHand
         /\ IF inHand.previousHash \in DOMAIN liveHeaders
            THEN /\ header'.height = liveHeaders[inHand.previousHash].height + 1
                 /\ header'.hash = blockHash(inHand.previousHash, inHand.bits, inHand.nonce)
                 /\ header'.hash \in DOMAIN liveHeaders' \cup dirtyHashes
            ELSE /\ UNCHANGED <<storeVars, recursions, fetched, delivered, liveQueue>>
                 /\ header' = inHand
                 /\ notes' = <<>>
                 /\ ~result'.added]_vars

\* one submitted header was inserted with the server's height and hash, and the
\* one processed last was ignored for its unknown previous header
BaseHeaderHandlingWitness ==
    /\ header \in acked
    /\ header.previousHash = UnknownHash
    /\ result = NoResult
    /\ \E x \in DOMAIN liveHeaders :
           /\ liveHeaders[x].height > 0
           /\ baseHeader(liveHeaders[x].previousHash, liveHeaders[x].bits,
                         liveHeaders[x].nonce, TRUE) \in acked

----------------------------------------------------------------------------
(* Startup, runtime errors and shutdown of the engine *)

\* most errors thrown in the main thread while the engine is available
MaxFaults == 1

\* most headers handed in over one life of the engine
MaxLifeIntake == 2

\* the engine before startJsonRpcServer is called
EngineIdle ==
    /\ epc = "idle"
    /\ dpc = "no"
    /\ available = FALSE
    /\ startupError = FALSE
    /\ stopMainThread = FALSE
    /\ liveIngestor = "off"
    /\ bulkIngestor = "off"
    /\ storageUp = "none"
    /\ logged = 0

LifeInit ==
    /\ liveHeaders = [x \in {GenesisHash} |-> genesisEntry]
    /\ activeByHeight = [ht \in {0} |-> GenesisHash]
    /\ activeTip = GenesisHash
    /\ tooDeep = {}
    /\ header = NoHeader
    /\ result = NoResult
    /\ notes = <<>>
    /\ LocksIdle
    /\ TierIdle
    /\ LoopIdle("off")
    /\ EngineIdle
    /\ SideIdle

\* what the main thread's catch does with an error: before the engine is
\* available it sets startupError and stops, afterwards it logs and continues
mainThreadCatch_fatal(avail, n) ==
    [startupError |-> ~avail, stops |-> TRUE, available |-> FALSE, logged |-> n + 1]

mainThreadCatch(avail, n) ==
    [startupError |-> ~avail, stops |-> ~avail, available |-> avail, logged |-> n + 1]

\* makeAvailable stops waiting with the startup error, which it throws
startupFailed_unseen(err) == FALSE

startupFailed(err) == err

\* await Promise.all(promises): the main thread's promise is among them
tasksDone_unawaited(pos) == TRUE

tasksDone(pos) == pos \in {"off", "ended"}

\* startJsonRpcServer calls makeAvailable: storage, ingestors, live ingestors
\* listening, main thread started
MakeAvailable ==
    /\ epc = "idle"
    /\ epc' = "starting"
    /\ storageUp' = "ready"
    /\ bulkIngestor' = "ready"
    /\ liveIngestor' = "listening"
    /\ mpc' = "sync"
    /\ UNCHANGED <<storeVars, mainVars, lockVars, taskVars, tierVars, liveQueue, baseQueue,
                   inHand, recursions, fetched, delivered, tipLog, intake, acked, dpc,
                   available, startupError, stopMainThread, logged, sideVars>>

\* the main thread's first syncBulkStorage succeeds: available = true, then the
\* live loop
SyncBulkStorage ==
    /\ mpc = "sync"
    /\ available' = TRUE
    /\ liveCondition(liveQueue)
    /\ UNCHANGED <<storeVars, mainVars, lockVars, taskVars, tierVars, recursions, fetched,
                   delivered, tipLog, intake, acked, epc, dpc, startupError,
                   stopMainThread, liveIngestor, bulkIngestor, storageUp, logged, sideVars>>

\* the main thread catches an error at position pos
caught(pos) ==
    /\ mpc = pos
    /\ \E c \in {mainThreadCatch(available, logged)} :
        /\ startupError' = c.startupError
        /\ available' = c.available
        /\ logged' = c.logged
        /\ mpc' = IF c.stops THEN "ended" ELSE "wait"
    /\ inHand' = NoHeader
    /\ UNCHANGED <<storeVars, mainVars, lockVars, taskVars, tierVars, liveQueue, baseQueue,
                   recursions, fetched, delivered, tipLog, intake, acked, epc, dpc,
                   stopMainThread, liveIngestor, bulkIngestor, storageUp, sideVars>>

\* the first syncBulkStorage throws (download timeout, invalid bulk file)
SyncFails ==
    /\ ~available
    /\ caught("sync")

\* the storage throws while the main thread processes a header
StorageFault ==
    /\ logged < MaxFaults
    /\ caught("insert") \/ caught("baseInsert")

\* makeAvailable's wait ends with available = true; the server listens
MakeAvailableReturns ==
    /\ epc = "starting"
    /\ available
    /\ epc' = "listening"
    /\ UNCHANGED <<storeVars, mainVars, lockVars, taskVars, tierVars, loopVars, dpc,
                   available, startupError, stopMainThread, liveIngestor, bulkIngestor,
                   storageUp, logged, sideVars>>

\* makeAvailable's wait ends with the startup error, thrown to the caller
MakeAvailableThrows ==
    /\ epc = "starting"
    /\ startupFailed(startupError)
    /\ epc' = "failed"
    /\ UNCHANGED <<storeVars, mainVars, lockVars, taskVars, tierVars, loopVars, dpc,
                   available, startupError, stopMainThread, liveIngestor, bulkIngestor,
                   storageUp, logged, sideVars>>

\* a step of destroy() from position from to position to
destroyStep(from, to) ==
    /\ dpc = from
    /\ dpc' = to
    /\ UNCHANGED <<storeVars, mainVars, lockVars, taskVars, tierVars, loopVars, epc,
                   startupError, logged, sideVars>>

\* stopJsonRpcServer closes the HTTP server and calls destroy(), which sets
\* stopMainThread and calls the live ingestors' shutdown
DestroyBegin ==
    /\ epc = "listening"
    /\ destroyStep("no", "live")
    /\ stopMainThread' = TRUE
    /\ liveIngestor' = "stopping"
    /\ UNCHANGED <<available, bulkIngestor, storageUp>>

\* await liveIngestor.shutdown() returns; the bulk ingestors' shutdown is called
LiveIngestorsStopped ==
    /\ destroyStep("live", "bulk")
    /\ liveIngestor' = "shutdown"
    /\ bulkIngestor' = "stopping"
    /\ UNCHANGED <<available, stopMainThread, storageUp>>

\* await bulkIngestor.shutdown() returns
BulkIngestorsStopped ==
    /\ destroyStep("bulk", "promises")
    /\ bulkIngestor' = "shutdown"
    /\ UNCHANGED <<available, stopMainThread, liveIngestor, storageUp>>

\* await Promise.all(promises) returns, storage.destroy() is called
PromisesDone ==
    /\ tasksDone(mpc)
    /\ destroyStep("promises", "storage")
    /\ storageUp' = "destroyed"
    /\ UNCHANGED <<available, stopMainThread, liveIngestor, bulkIngestor>>

\* await storage.destroy() returns; available = false
DestroyEnd ==
    /\ destroyStep("storage", "done")
    /\ available' = FALSE
    /\ UNCHANGED <<stopMainThread, liveIngestor, bulkIngestor, storageUp>>

\* the live ingestors push while they listen
LifePush == liveIngestor = "listening" /\ intake < MaxLifeIntake /\ IngestorPush

\* clients submit while the HTTP server accepts connections
LifeSubmit ==
    epc = "listening" /\ dpc = "no" /\ intake < MaxLifeIntake /\ ClientSubmit

MainThread == SyncBulkStorage \/ SyncFails \/ StorageFault \/ MainStep

Caller == MakeAvailableReturns \/ MakeAvailableThrows

Destroy ==
    LiveIngestorsStopped \/ BulkIngestorsStopped \/ PromisesDone \/ DestroyEnd

LifeNext ==
    \/ MakeAvailable
    \/ LifePush
    \/ LifeSubmit
    \/ MainThread
    \/ Caller
    \/ DestroyBegin
    \/ Destroy

LifeSpec == LifeInit /\ [][LifeNext]_vars

LifeFairSpec ==
    LifeSpec /\ WF_vars(MainThread) /\ WF_vars(Caller) /\ WF_vars(Destroy)

----------------------------------------------------------------------------
(* Startup, runtime errors and shutdown: properties *)

\* the server listens only on an available engine, and a startup error leaves
\* the engine unavailable and the server not listening
gatedByAvailable ==
    /\ epc = "listening" /\ dpc # "done" => available
    /\ startupError => ~available /\ epc \in {"starting", "failed"}
    /\ epc = "failed" => startupError

(* C18: startup gating.  makeAvailable returns, and the server listens, only *)
(* after the main thread's first bulk synchronization set available = true;  *)
(* when that synchronization fails the engine never becomes available and    *)
(* the failure reaches the caller of makeAvailable / startJsonRpcServer,     *)
(* which does not wait forever.                                              *)
StartupGating ==
    /\ []gatedByAvailable
    /\ startupError ~> epc = "failed"
    /\ epc = "starting" ~> epc \in {"listening", "failed"}

StartupGatingWitness == epc = "failed" /\ startupError /\ ~available /\ mpc = "ended"

\* the other outcome of the startup: the server listens on an available engine
StartupServingWitness == epc = "listening" /\ available /\ dpc = "no" /\ intake > 0

\* the step is the main thread's catch of an error
errorCaught == logged' > logged

(* C19 as stated: a storage fault while the engine is available is fatal:    *)
(* the main loop halts and the engine is unavailable from then on.           *)
StorageFaultFatal == logged > 0 => mpc = "ended" /\ ~available

(* C19 amended: an error in the main thread is fatal only before the engine  *)
(* is available (startupError is set and the main thread stops).  An error   *)
(* caught while the engine is available is logged and the main thread        *)
(* continues: the engine stays available and the main thread ends only on a  *)
(* startup error or on the stop flag of destroy().                           *)
StorageFaultLogged ==
    /\ [](mpc = "ended" => startupError \/ stopMainThread)
    /\ [][errorCaught =>
            IF available
            THEN available' /\ ~startupError' /\ mpc' # "ended"
            ELSE startupError' /\ ~available' /\ mpc' = "ended"]_vars

\* after an error caught while available the main thread has the next header
\* in hand
StorageFaultLoggedWitness ==
    logged > 0 /\ available /\ ~startupError /\ mpc \in {"insert", "baseInsert"}

\* the order of the steps of destroy()
destroyInOrder ==
    /\ dpc # "no" => stopMainThread /\ liveIngestor # "listening"
    /\ dpc \in {"bulk", "promises", "storage", "done"} => liveIngestor = "shutdown"
    /\ dpc \in {"promises", "storage", "done"} => bulkIngestor = "shutdown"
    /\ dpc \in {"storage", "done"} <=> storageUp = "destroyed"
    /\ dpc \in {"live", "bulk", "promises", "storage"} => available
    /\ dpc = "done" => ~available

\* the storage is torn down only when no task can access it any more
tornDownUnused ==
    storageUp = "destroyed" =>
        /\ mpc = "ended"
        /\ liveIngestor = "shutdown"
        /\ bulkIngestor = "shutdown"

(* C20: shutdown order.  destroy() sets the stop flag, after which nothing   *)
(* is taken into the queues, shuts down the live and then the bulk           *)
(* ingestors, waits for the outstanding tasks, and only then destroys the    *)
(* storage and sets available = false; the storage is never torn down while  *)
(* the main loop or an ingestor can access it, and no insert or notification *)
(* follows the end of destroy().                                             *)
ShutdownOrder ==
    /\ [](destroyInOrder /\ tornDownUnused)
    /\ [][/\ stopMainThread => intake' = intake
          /\ storageUp = "destroyed" =>
                 UNCHANGED <<storeVars, mainVars, delivered, tipLog>>]_vars

\* destroy() waits for the task of the main thread, which has a header in hand
ShutdownOrderWitness ==
    dpc = "promises" /\ mpc \in {"insert", "baseInsert"} /\ storageUp = "ready"

\* destroy() has completed after the engine processed headers
ShutdownDoneWitness == dpc = "done" /\ tipLog # <<>> /\ delivered # <<>>

\* destroy() completes
DestroyCompletes == dpc # "no" ~> dpc = "done"

----------------------------------------------------------------------------
(* The single logical writer: queries, ingestors and the main thread *)

\* number of headers the live ingestor pushes while queries run concurrently
MaxLockIntake == 2

\* a live ingestor pushes a header while queries and the main thread run
LockPush ==
    /\ intake < MaxLockIntake
    /\ IngestorPush

\* the main thread shifts a header from liveHeaders and asks for the write lock
\* that insertHeader takes
ShiftRequest ==
    /\ wpc["insert"] = "idle"
    /\ liveQueue # <<>>
    /\ wplan' = [NoPlan EXCEPT !.h = Head(liveQueue)]
    /\ liveQueue' = Tail(liveQueue)
    /\ lockStep(readerCount, writerActive, Append(writerQueue, "insert"), readerQueue,
                rpc, [wpc EXCEPT !["insert"] = "waiting"])
    /\ UNCHANGED <<storeVars, mainVars, seen, wold, wnew, preIndex, tierVars, lifeVars,
                   baseQueue, mpc, inHand, recursions, fetched, delivered, tipLog,
                   intake, acked, sideVars>>

\* syncBulkStorage under the write lock: old headers move to the bulk files
SyncMigration ==
    /\ wpc["sync"] = "writing"
    /\ BulkMigration

WriterNext ==
    \/ \E r \in Readers : ReaderRequest(r)
    \/ \E r \in Readers : ReaderRead(r)
    \/ \E r \in Readers : ReaderRelease(r)
    \/ LockPush
    \/ SyncRequest
    \/ SyncMigration
    \/ SyncRelease
    \/ ShiftRequest
    \/ InsertBegin
    \/ Deactivate
    \/ Activate
    \/ InsertEnd

\* queries, a live ingestor and the main thread's writers over one store
WriterSpec == LockInit /\ [][WriterNext]_vars

\* the live tier, the active index and the bulk tier
chainStore == <<liveHeaders, activeByHeight, activeTip, bulkFiles>>

\* a task of the main thread is inside the fn it passed to withWriteLock
insideWriteLock ==
    /\ writerActive
    /\ readerCount = 0
    /\ \E w \in DOMAIN wpc : wpc[w] \in {"writing", "reorg"}

\* the step is one of a query: it asked for the read lock, read a height or
\* released the lock
queryStep ==
    \E r \in Readers :
        rpc[r] # "waiting" /\ (rpc'[r] # rpc[r] \/ seen'[r] # seen[r])

\* the step is one of an ingestor: a queue grew
ingestorStep ==
    \/ Len(liveQueue') > Len(liveQueue)
    \/ Len(baseQueue') > Len(baseQueue)

SingleWriterReorgWitness ==
    /\ wpc["insert"] = "reorg"
    /\ wold # <<>>
    /\ liveQueue # <<>>

----------------------------------------------------------------------------
(* Migration, the two tiers and bulk storage: properties *)

\* the live entries a step removed
removedEntries == DOMAIN liveHeaders \ DOMAIN liveHeaders'

\* the live entries of the active chain, by their isActive flags
activeEntries == {x \in DOMAIN liveHeaders : liveHeaders[x].isActive}

\* height of the active tip
tipHeight == liveHeaders[activeTip].height

\* the step is a migration: the bulk files grew or live entries went away
migrationStep == bulkFiles' # bulkFiles \/ removedEntries # {}

(* C22: bulkMigration moves to the bulk files exactly the active-chain live  *)
(* entries that are more than liveHeightThreshold below the tip, each in its *)
(* wire form at its height; it never moves a side-chain entry or an entry    *)
(* within the threshold; an entry off the active chain is removed only when  *)
(* it is more than reorgHeightThreshold below the tip; what stays is         *)
(* unchanged, and so is the tip.                                             *)
BulkMigrationExact ==
    [][ migrationStep =>
          LET old   == {x \in activeEntries :
                           tipHeight - liveHeaders[x].height > liveHeightThreshold}
              moved == removedEntries \cap activeEntries
          IN  /\ moved = old
              /\ bulkCount(bulkFiles') = bulkCount(bulkFiles) + Cardinality(old)
              /\ \A x \in old :
                    LET ht == liveHeaders[x].height
                    IN  /\ bulkCount(bulkFiles) <= ht /\ ht < bulkCount(bulkFiles')
                        /\ SubSeq(bulkFiles'[ht \div maxPerFile],
                                  (ht % maxPerFile) * HeaderSize + 1,
                                  ((ht % maxPerFile) + 1) * HeaderSize)
                             = wireOf(liveHeaders[x])
              /\ \A x \in removedEntries \ activeEntries :
                    tipHeight - liveHeaders[x].height > reorgHeightThreshold
              /\ \A x \in DOMAIN liveHeaders' : liveHeaders'[x] = liveHeaders[x]
              /\ activeTip' = activeTip /\ activeTip \in DOMAIN liveHeaders'
      ]_vars

\* a side-chain entry is still in the live map while the active header it
\* builds on has moved to the bulk files
BulkMigrationExactWitness ==
    \E x \in DOMAIN liveHeaders :
        /\ ~liveHeaders[x].isActive
        /\ liveHeaders[x].previousHash \notin DOMAIN liveHeaders
        /\ liveHeaders[x].height = bulkCount(bulkFiles)
        /\ bulkCount(bulkFiles) > 0


\* ranges.live.minHeight: the lowest height in the live map
liveMinHeight ==
    CHOOSE lo \in {liveHeaders[x].height : x \in DOMAIN liveHeaders} :
        \A x \in DOMAIN liveHeaders : lo <= liveHeaders[x].height

\* ranges.bulk.maxHeight: the highest height in the bulk files, -1 when empty
bulkMaxHeight == bulkCount(bulkFiles) - 1

\* the header findHeaderForHeight gives at a height
resolved(ht) == findHeaderForHeightInTiers(bulkFiles, liveHeaders, activeByHeight, ht)

(* C23: no gap between the tiers.  bulk.maxHeight + 1 >= live.minHeight, and *)
(* every height from the first bulk height to the tip resolves through       *)
(* findHeaderForHeight to a header of that height that links to the header   *)
(* resolved one below; the tip's height resolves to the active tip.          *)
NoGap ==
    /\ bulkMaxHeight + 1 >= liveMinHeight
    /\ \A ht \in 0..tipHeight :
          /\ resolved(ht) # NoHeader
          /\ resolved(ht).height = ht
          /\ ht > 0 => resolved(ht).previousHash = resolved(ht - 1).hash
    /\ resolved(tipHeight).hash = activeTip

\* both tiers hold headers, the bulk tier in more than one file, and the live
\* map holds a side-chain entry at its lowest height
NoGapWitness ==
    /\ bulkCount(bulkFiles) > maxPerFile
    /\ tipHeight > bulkCount(bulkFiles)
    /\ \E x \in DOMAIN liveHeaders :
          ~liveHeaders[x].isActive /\ liveHeaders[x].height = liveMinHeight


\* the bytes stored in the bulk files for a height, read without the manager
storedBytes(files, ht) ==
    SubSeq(files[ht \div maxPerFile], (ht % maxPerFile) * HeaderSize + 1,
           ((ht % maxPerFile) + 1) * HeaderSize)

(* C24: bulk immutability.  A header written to the bulk files is never      *)
(* changed, removed or replaced: whatever the step (an insert, a reorg, a    *)
(* migration, a query), every height at or below bulk.maxHeight keeps its    *)
(* stored bytes and findHeaderForHeight keeps serving the same header.       *)
BulkImmutable ==
    [][ \A ht \in 0..bulkMaxHeight :
          /\ ht < bulkCount(bulkFiles')
          /\ storedBytes(bulkFiles', ht) = storedBytes(bulkFiles, ht)
          /\ findHeaderForHeightInTiers(bulkFiles', liveHeaders', activeByHeight', ht)
               = resolved(ht)
      ]_vars

\* a reorg has been carried out above headers that are in the bulk files
BulkImmutableWitness ==
    /\ bulkCount(bulkFiles) > 0
    /\ result.added /\ result.isActiveTip /\ result.reorgDepth > 0


\* the height at which the bulk files hold the header with this hash, if any
bulkHeightsOf(hash) == {ht \in 0..bulkMaxHeight : resolved(ht).hash = hash}

FindLiveSideWitness ==
    /\ hashReply.value # NoHeader
    /\ ~hashReply.value.isActive
    /\ bulkCount(bulkFiles) > 0

----------------------------------------------------------------------------
(* Bulk ingestors: synchronisation from the configured sources *)

\* number of chunk files the manifest lists
NumChunks == 2
\* number of configured bulk sources, in fallback order
NumSources == 2
\* modulus of the content digest
DigestSize == 997

\* the hash of the source chain's header at a height
RECURSIVE chainHashAt(_)
chainHashAt(ht) ==
    IF ht = 0 THEN GenesisHash ELSE blockHash(chainHashAt(ht - 1), 3, 0)

\* the serialized header of the source chain at a height, on the parent given
chainBytes(prev, ht) == IF ht = 0 THEN <<NoHash, 1, 0>> ELSE <<prev, 3, 0>>

\* first height of a manifest entry's chunk
firstHeight(c) == (c - 1) * maxPerFile

\* the chunk file of entry c: maxPerFile serialized headers
RECURSIVE chunkFrom(_, _, _)
chunkFrom(prev, ht, n) ==
    IF n = 0 THEN <<>>
    ELSE LET b == chainBytes(prev, ht)
         IN  b \o chunkFrom(blockHash(b[1], b[2], b[3]), ht + 1, n - 1)

\* what a source or the cache may hold for entry c: the chunk file, a file with
\* a damaged header, a file of a chain that does not link to the one before,
\* or nothing (the fetch fails)
Kinds == {"good", "corrupt", "unlinked", "down"}

chunkOf(c, kind) ==
    LET good == chunkFrom(IF c = 1 THEN NoHash ELSE chainHashAt(firstHeight(c) - 1),
                          firstHeight(c), maxPerFile)
    IN  CASE kind = "good" -> good
          [] kind = "corrupt" -> [good EXCEPT ![Len(good)] = 1]
          [] kind = "unlinked" -> chunkFrom(UnknownHash, firstHeight(c) + 1, maxPerFile)
          [] OTHER -> <<>>

\* fileHash: the content hash of a chunk file
RECURSIVE fileHash(_)
fileHash(bytes) ==
    IF bytes = <<>> THEN 7
    ELSE (fileHash(SubSeq(bytes, 1, Len(bytes) - 1)) * 31 + bytes[Len(bytes)]) % DigestSize

\* the hash of the last header of a chunk file
lastHashOf(bytes) ==
    blockHash(bytes[Len(bytes) - 2], bytes[Len(bytes) - 1], bytes[Len(bytes)])

\* the manifest's entry for chunk c
manifest(c) ==
    [firstHeight |-> firstHeight(c), count |-> maxPerFile,
     prevHash |-> IF c = 1 THEN NoHash ELSE chainHashAt(firstHeight(c) - 1),
     lastHash |-> chainHashAt(firstHeight(c) + maxPerFile - 1),
     fileHash |-> fileHash(chunkOf(c, "good"))]

\* mutant: whatever was downloaded is accepted
verifyChunk_any(m, bytes) == bytes # <<>>

\* a downloaded chunk is accepted: content hash and previous-hash linkage are
\* those of the manifest entry
verifyChunk(m, bytes) ==
    /\ Len(bytes) = m.count * HeaderSize
    /\ fileHash(bytes) = m.fileHash
    /\ bytes[1] = m.prevHash
    /\ lastHashOf(bytes) = m.lastHash

\* the cached local copy has the manifest's content hash
cacheMatches(m, bytes) == bytes # <<>> /\ fileHash(bytes) = m.fileHash

\* the chunk is handed on and the next manifest entry is taken
yield(bytes) ==
    /\ yielded' = Append(yielded, bytes)
    /\ chunkNo' = chunkNo + 1
    /\ sourceNo' = 1

ingesting == spc = "chunk" /\ chunkNo <= NumChunks

\* synchronize leaves the engine's other state alone
engineUnchanged ==
    UNCHANGED <<storeVars, mainVars, lockVars, taskVars, tierVars, loopVars, lifeVars,
                pollVars, cacheVars, exportVars, serverVars>>

\* synchronize is called: the manifest is fetched
Synchronize ==
    /\ spc = "idle"
    /\ spc' = "chunk"
    /\ UNCHANGED <<chunkNo, sourceNo, cache, served, yielded, downloads>>
    /\ engineUnchanged

\* the cached local copy matches the manifest hash: it is used, no download
UseCache ==
    /\ ingesting
    /\ cacheMatches(manifest(chunkNo), chunkOf(chunkNo, cache[chunkNo]))
    /\ yield(chunkOf(chunkNo, cache[chunkNo]))
    /\ UNCHANGED <<spc, cache, served, downloads>>
    /\ engineUnchanged

\* the chunk is downloaded from the source tried next and verified; a chunk
\* that fails is dropped and the next source is tried
Download ==
    /\ ingesting
    /\ ~cacheMatches(manifest(chunkNo), chunkOf(chunkNo, cache[chunkNo]))
    /\ sourceNo <= NumSources
    /\ downloads' = downloads \cup {<<chunkNo, sourceNo>>}
    /\ \E bytes \in {chunkOf(chunkNo, served[chunkNo][sourceNo])} :
          IF verifyChunk(manifest(chunkNo), bytes)
          THEN yield(bytes)
          ELSE /\ sourceNo' = sourceNo + 1
               /\ UNCHANGED <<chunkNo, yielded>>
    /\ UNCHANGED <<spc, cache, served>>
    /\ engineUnchanged

\* no configured source is left for the chunk: synchronize fails
SourcesExhausted ==
    /\ ingesting
    /\ ~cacheMatches(manifest(chunkNo), chunkOf(chunkNo, cache[chunkNo]))
    /\ sourceNo > NumSources
    /\ spc' = "failed"
    /\ UNCHANGED <<chunkNo, sourceNo, cache, served, yielded, downloads>>
    /\ engineUnchanged

\* every manifest entry was ingested
SyncDone ==
    /\ spc = "chunk"
    /\ chunkNo > NumChunks
    /\ spc' = "done"
    /\ UNCHANGED <<chunkNo, sourceNo, cache, served, yielded, downloads>>
    /\ engineUnchanged

SyncNext == Synchronize \/ UseCache \/ Download \/ SourcesExhausted \/ SyncDone

\* before synchronize: any content at the sources and in the local cache
SyncInit ==
    /\ liveHeaders = [x \in {GenesisHash} |-> genesisEntry]
    /\ activeByHeight = [ht \in {0} |-> GenesisHash]
    /\ activeTip = GenesisHash
    /\ tooDeep = {}
    /\ header = NoHeader
    /\ result = NoResult
    /\ notes = <<>>
    /\ LocksIdle
    /\ TierIdle
    /\ LoopIdle("off")
    /\ EngineIdle
    /\ spc = "idle"
    /\ chunkNo = 1
    /\ sourceNo = 1
    /\ cache \in [1..NumChunks -> Kinds]
    /\ served \in [1..NumChunks -> [1..NumSources -> Kinds]]
    /\ yielded = <<>>
    /\ downloads = {}
    /\ PollIdle
    /\ CacheIdle
    /\ ExportIdle(FALSE)
    /\ ServerIdle

\* BulkIngestor.synchronize over its sources
SyncSpec == SyncInit /\ [][SyncNext]_vars

\* content hash and linkage of a chunk, stated on its bytes
matchesManifest(c, bytes) ==
    /\ fileHash(bytes) = manifest(c).fileHash
    /\ bytes[1] = manifest(c).prevHash
    /\ c > 1 => bytes[1] = lastHashOf(yielded[c - 1])

\* every chunk handed on has the content hash and the linkage of its entry
onlyVerifiedYielded ==
    \A c \in 1..Len(yielded) : yielded[c] # <<>> /\ matchesManifest(c, yielded[c])

\* the cached copy of the entry being ingested has the manifest's hash
cacheHit == fileHash(chunkOf(chunkNo, cache[chunkNo])) = manifest(chunkNo).fileHash

(* C25: bulk chunk verification.  A chunk is handed on to storage only if    *)
(* its content hash and its previous-hash linkage are those of the manifest; *)
(* a download is made only when the cached local copy does not have the      *)
(* manifest hash, and from a source only after every source before it        *)
(* failed for this chunk; a chunk that fails verification is not handed on   *)
(* and the next source is tried; a matching cached copy is handed on without *)
(* a download.                                                               *)
ChunkVerification ==
    /\ []onlyVerifiedYielded
    /\ [][ /\ downloads' # downloads =>
                /\ ~cacheHit
                /\ downloads' = downloads \cup {<<chunkNo, sourceNo>>}
                /\ \A s \in 1..(sourceNo - 1) :
                      /\ <<chunkNo, s>> \in downloads
                      /\ fileHash(chunkOf(chunkNo, served[chunkNo][s]))
                            # manifest(chunkNo).fileHash
                /\ \/ /\ yielded' = Append(yielded, chunkOf(chunkNo, served[chunkNo][sourceNo]))
                      /\ chunkNo' = chunkNo + 1
                   \/ /\ yielded' = yielded /\ chunkNo' = chunkNo
                      /\ sourceNo' = sourceNo + 1 /\ spc' = "chunk"
                      /\ fileHash(chunkOf(chunkNo, served[chunkNo][sourceNo]))
                            # manifest(chunkNo).fileHash
           /\ yielded' # yielded /\ downloads' = downloads =>
                /\ cacheHit
                /\ yielded' = Append(yielded, chunkOf(chunkNo, cache[chunkNo]))
      ]_vars

\* the first chunk came from the second source after the first source's chunk
\* failed verification, the second chunk from the local cache
ChunkVerificationWitness ==
    /\ spc = "done"
    /\ downloads = {<<1, 1>>, <<1, 2>>}
    /\ served[1][1] = "corrupt"
    /\ Len(yielded) = NumChunks

\* every source failed for a chunk: nothing of it was handed on
ChunkRefusedWitness ==
    /\ spc = "failed"
    /\ chunkNo = 2
    /\ Len(yielded) = 1
    /\ served[2][1] = "unlinked"

----------------------------------------------------------------------------
(* Live ingestor: the polling task *)

\* height the polled chain reaches
MaxRemoteHeight == 3

\* the header /block/height/{n}/header serves
remoteHeader(ht) ==
    [previousHash |-> chainHashAt(ht - 1), bits |-> 3, nonce |-> 0,
     height |-> ht, hash |-> chainHashAt(ht), wellFormed |-> TRUE]

\* mutant: a network error ends the polling task
pollCatch_ends(pos) == "stopped"

\* a network error is logged and the task waits for the next poll
pollCatch(pos) == "waiting"

polling == ppc \in {"waiting", "fetching"}

\* the rest of the engine's state, which the polling task does not touch
pollFrame ==
    UNCHANGED <<storeVars, mainVars, lockVars, taskVars, tierVars, lifeVars, syncVars,
                cacheVars, exportVars, serverVars, baseQueue, mpc, inHand, recursions, fetched, delivered, tipLog, acked>>

\* a block is mined: /chain/info reports one more
RemoteBlock ==
    /\ remoteHeight < MaxRemoteHeight
    /\ remoteHeight' = remoteHeight + 1
    /\ pollFrame
    /\ UNCHANGED <<ppc, lastHeight, pollErrors, liveQueue, intake>>

\* the idle wait ends and /chain/info shows a height change
PollInfo ==
    /\ ppc = "waiting"
    /\ liveIngestor = "listening"
    /\ remoteHeight > lastHeight
    /\ ppc' = "fetching"
    /\ pollFrame
    /\ UNCHANGED <<remoteHeight, lastHeight, pollErrors, liveQueue, intake>>

\* the next new header is fetched and pushed to liveHeaders
FetchPush ==
    /\ ppc = "fetching"
    /\ liveIngestor = "listening"
    /\ liveQueue' = Append(liveQueue, remoteHeader(lastHeight + 1))
    /\ intake' = intake + 1
    /\ lastHeight' = lastHeight + 1
    /\ ppc' = IF lastHeight + 1 < remoteHeight THEN "fetching" ELSE "waiting"
    /\ pollFrame
    /\ UNCHANGED <<remoteHeight, pollErrors>>

\* a request fails: the error is logged, the next poll tries again
PollFails ==
    /\ polling
    /\ liveIngestor = "listening"
    /\ pollErrors < MaxFaults
    /\ pollErrors' = pollErrors + 1
    /\ ppc' = pollCatch(ppc)
    /\ pollFrame
    /\ UNCHANGED <<remoteHeight, lastHeight, liveQueue, intake>>

\* shutdown was signalled: the polling task ends
PollStops ==
    /\ polling
    /\ liveIngestor # "listening"
    /\ ppc' = "stopped"
    /\ pollFrame
    /\ UNCHANGED <<remoteHeight, lastHeight, pollErrors, liveQueue, intake>>

PollTask == PollInfo \/ FetchPush \/ PollStops

\* stopJsonRpcServer is called
PollShutdown ==
    /\ DestroyBegin

\* the main thread with no client submitting: the base loop finds its queue
\* empty on every pass
LiveLoop == LiveInsert \/ Wait

PollNext == RemoteBlock \/ PollTask \/ PollFails \/ LiveLoop \/ PollShutdown

\* the engine is running and the live ingestor polls
PollInit ==
    /\ liveHeaders = [x \in {GenesisHash} |-> genesisEntry]
    /\ activeByHeight = [ht \in {0} |-> GenesisHash]
    /\ activeTip = GenesisHash
    /\ tooDeep = {}
    /\ header = NoHeader
    /\ result = NoResult
    /\ notes = <<>>
    /\ LocksIdle
    /\ TierIdle
    /\ LoopIdle("wait")
    /\ EngineRunning
    /\ SyncIdle
    /\ CacheIdle
    /\ ExportIdle(FALSE)
    /\ ServerIdle
    /\ ppc = "waiting"
    /\ remoteHeight = 0
    /\ lastHeight = 0
    /\ pollErrors = 0

\* the polling task, the chain it polls and the main thread
PollSpec == PollInit /\ [][PollNext]_vars

\* the polling task and the main thread are scheduled
PollFairSpec == PollSpec /\ WF_vars(PollTask) /\ WF_vars(LiveLoop)

\* the polling task ends only on shutdown, and so does the main thread
stopsOnlyOnShutdown ==
    /\ ppc = "stopped" => stopMainThread
    /\ mpc = "ended" => stopMainThread
    /\ lastHeight <= remoteHeight

\* a network error leaves the task polling and the main thread where it is
errorIsRetried ==
    pollErrors' # pollErrors =>
        /\ ppc' \in {"waiting", "fetching"}
        /\ mpc' = mpc /\ inHand' = inHand
        /\ liveQueue' = liveQueue /\ lastHeight' = lastHeight
        /\ UNCHANGED storeVars

\* new headers are pushed one by one, each at the end of the live queue
pushesEachHeader ==
    lastHeight' # lastHeight =>
        /\ lastHeight' = lastHeight + 1
        /\ Len(liveQueue') = Len(liveQueue) + 1
        /\ SubSeq(liveQueue', 1, Len(liveQueue)) = liveQueue
        /\ liveQueue'[Len(liveQueue')].height = lastHeight + 1
        /\ liveQueue'[Len(liveQueue')].hash = chainHashAt(lastHeight + 1)

(* C26: live ingestor resilience.  The polling task ends only when shutdown  *)
(* is signalled; a network error leaves it polling and changes nothing of    *)
(* the main thread, the queue or the store; on a height increase each new    *)
(* header is pushed to the live queue, in order; unless shutdown is          *)
(* signalled, every new height is pushed in the end, whatever errors came    *)
(* in between, and the queued headers are processed.                         *)
IngestorResilience ==
    /\ []stopsOnlyOnShutdown
    /\ [][errorIsRetried /\ pushesEachHeader]_vars
    /\ (lastHeight < remoteHeight) ~> (lastHeight = remoteHeight \/ stopMainThread)
    /\ (liveQueue # <<>>) ~> (liveQueue = <<>> \/ mpc = "ended")

\* after a network error in the middle of a fetch every header of the polled
\* chain was pushed and became part of the active chain
IngestorResilienceWitness ==
    /\ pollErrors > 0
    /\ ~stopMainThread
    /\ lastHeight = MaxRemoteHeight
    /\ liveHeaders[activeTip].height = MaxRemoteHeight
    /\ ppc = "waiting"

\* the polling task ended on shutdown with a header still to fetch
IngestorStoppedWitness ==
    ppc = "stopped" /\ lastHeight < remoteHeight /\ pollErrors > 0

----------------------------------------------------------------------------
(* BulkFileDataManager: the bulk files held in memory *)

\* maxRetained: number of bulk files to retain in memory
maxRetained == 2
\* number of bulk files the synchronisations bring
MaxFiles == 3

\* the content of a bulk file at the external content source
sourceFile(fn) == chunkOf(fn + 1, "good")

\* mutant: the memory is never taken to be full
cacheFull_never(n) == FALSE

\* the memory holds as many files as it may retain
cacheFull(n) == n >= maxRetained

\* the sequence without the element x
without(seq, x) == SelectSeq(seq, LAMBDA y : y # x)

\* loadFile and use of file fn: a file in memory becomes the most recently
\* used; a file not in memory is loaded, in place of the least recently used
\* one when the memory is full
touch(c, fn) ==
    IF fn \in DOMAIN c.files
    THEN [files |-> c.files, recency |-> Append(without(c.recency, fn), fn),
          evicted |-> c.evicted]
    ELSE IF cacheFull(Len(c.recency))
    THEN [files |-> [f \in (DOMAIN c.files \ {Head(c.recency)}) \cup {fn} |->
                        IF f = fn THEN sourceFile(fn) ELSE c.files[f]],
          recency |-> Append(Tail(c.recency), fn),
          evicted |-> c.evicted \cup {Head(c.recency)}]
    ELSE [files |-> [f \in DOMAIN c.files \cup {fn} |->
                        IF f = fn THEN sourceFile(fn) ELSE c.files[f]],
          recency |-> Append(c.recency, fn),
          evicted |-> c.evicted]

inMemory == [files |-> memFiles, recency |-> recency, evicted |-> evictedOnce]

cacheStep(c) ==
    /\ memFiles' = c.files
    /\ recency' = c.recency
    /\ evictedOnce' = c.evicted

cacheFrame ==
    UNCHANGED <<storeVars, mainVars, lockVars, taskVars, tierVars, loopVars, lifeVars,
                syncVars, pollVars, exportVars, serverVars>>

\* a synchronisation brings the next bulk file, which is held in memory
CacheSync ==
    /\ known < MaxFiles
    /\ known' = known + 1
    /\ cacheStep(touch(inMemory, known))
    /\ UNCHANGED <<lastRead, pending>>
    /\ cacheFrame

\* a height query (count 1) or a range query for headers of the bulk files
CacheQuery ==
    /\ pending = NoRead
    /\ \E height \in 0..(known * maxPerFile - 1), count \in 1..MaxCount :
        /\ height + count <= known * maxPerFile
        /\ pending' = [height |-> height, count |-> count, bytes |-> <<>>]
    /\ lastRead' = NoRead
    /\ UNCHANGED <<memFiles, recency, known, evictedOnce>>
    /\ cacheFrame

\* the query reads its next header from the header's file, which is loaded
\* when it is not in memory; after the last header the query replies
CacheRead ==
    /\ pending # NoRead
    /\ \E height \in {pending.height + Len(pending.bytes) \div HeaderSize} :
       \E t \in {touch(inMemory, fileNumber(height))} :
       \E bytes \in {pending.bytes \o bulkHeaderBytes(t.files, height)} :
            /\ cacheStep(t)
            /\ IF Len(bytes) = pending.count * HeaderSize
               THEN /\ lastRead' = [pending EXCEPT !.bytes = bytes]
                    /\ pending' = NoRead
               ELSE /\ pending' = [pending EXCEPT !.bytes = bytes]
                    /\ UNCHANGED lastRead
    /\ UNCHANGED known
    /\ cacheFrame

CacheNext == CacheSync \/ CacheQuery \/ CacheRead

CacheInit ==
    /\ liveHeaders = [x \in {GenesisHash} |-> genesisEntry]
    /\ activeByHeight = [ht \in {0} |-> GenesisHash]
    /\ activeTip = GenesisHash
    /\ tooDeep = {}
    /\ header = NoHeader
    /\ result = NoResult
    /\ notes = <<>>
    /\ LockIdle

\* the bulk file manager under synchronisations and queries
CacheSpec == CacheInit /\ [][CacheNext]_vars

\* the files in memory are within the bound, are those of the recency list,
\* and hold the content of the external source
cacheBounded ==
    /\ Cardinality(DOMAIN memFiles) <= maxRetained
    /\ DOMAIN memFiles = {recency[i] : i \in DOMAIN recency}
    /\ Len(recency) = Cardinality(DOMAIN memFiles)
    /\ \A f \in DOMAIN memFiles : f < known /\ memFiles[f] = sourceFile(f)

\* the reply to the last read is the headers of the chain at those heights
readsTrue ==
    lastRead # NoRead =>
        lastRead.bytes = chunkFrom(IF lastRead.height = 0 THEN NoHash
                                   ELSE chainHashAt(lastRead.height - 1),
                                   lastRead.height, lastRead.count)

\* the files a step drops from memory are the least recently used ones, and
\* none is dropped while there is room
evictsOldest ==
    LET dropped == DOMAIN memFiles \ DOMAIN memFiles'
    IN  dropped # {} =>
          /\ dropped = {recency[1]}
          /\ DOMAIN memFiles' \ DOMAIN memFiles # {}
          /\ Cardinality(DOMAIN memFiles') = maxRetained
          /\ dropped \subseteq evictedOnce'

(* C28: bounded bulk cache.  After any sequence of height queries, range     *)
(* queries and synchronisations the bulk files held in memory are at most    *)
(* maxRetained; a file is dropped only to make room for a file being loaded, *)
(* and it is the least recently used one; a file that was dropped is loaded  *)
(* again on demand with the content it had, so every read gives the headers  *)
(* of the chain.                                                             *)
BoundedCache ==
    /\ [](cacheBounded /\ readsTrue)
    /\ [][evictsOldest]_vars

\* a header was read from a file that had been dropped from memory and was
\* loaded again
BoundedCacheWitness ==
    /\ lastRead # NoRead
    /\ fileNumber(lastRead.height) \in evictedOnce
    /\ fileNumber(lastRead.height) \in DOMAIN memFiles
    /\ Cardinality(DOMAIN memFiles) = maxRetained
    /\ known = MaxFiles

----------------------------------------------------------------------------
(* Server: export of the bulk headers for the CDN *)

\* the export boundary (100000 headers in the program)
exportBoundary == 2
\* height the chain reaches while exports are checked
MaxExportHeight == 5

\* Math.floor(height / 100000)
milestone(height) == height \div exportBoundary

\* mutant: every check exports
shouldExport_always(currentHeight, last) == TRUE

\* shouldExport = currentMilestone > lastMilestone || lastExportedHeight === 0
shouldExport(currentHeight, last) ==
    milestone(currentHeight) > milestone(last) \/ last = 0

\* mutant: a call goes on while another export is in progress
passesGuard_always(enabled, exporting) == enabled

\* if (!enableBulkHeadersCDN) return; if (isExporting) return
passesGuard(enabled, exporting) == enabled /\ ~exporting

\* the engine after makeAvailable: the chain is synchronized up to a1
syncedStore ==
    LET g  == [live |-> [x \in {GenesisHash} |-> genesisEntry],
               abh |-> [ht \in {0} |-> GenesisHash], tip |-> GenesisHash]
        a1 == ingestedHeader(g.live, GenesisHash, 3, 0, "none")
    IN  insertHeader(g.live, g.abh, g.tip, a1)

\* chaintracks.currentHeight()
currentHeight == liveHeaders[activeTip].height

\* exportBulkHeaders() is called by trigger t and runs to its first await: the
\* two guards, then isExporting = true; a skipped call has returned, and the
\* server goes on to set the timer when that call was the initial export
exportCall(t) ==
    IF passesGuard(enableBulkHeadersCDN, isExporting)
    THEN /\ isExporting' = TRUE
         /\ xpc' = [xpc EXCEPT ![t] = "height"]
         /\ lastCall' = [trigger |-> t, outcome |-> "started"]
    ELSE /\ lastCall' = [trigger |-> t,
                         outcome |-> IF enableBulkHeadersCDN THEN "skipped"
                                     ELSE "disabled"]
         /\ xpc' = [xpc EXCEPT ![t] = IF t = "initial" THEN "returned" ELSE @]
         /\ UNCHANGED isExporting

\* mutant: the call returns without the finally block
exportReturns_keepsGuard(t) ==
    /\ UNCHANGED isExporting
    /\ xpc' = [xpc EXCEPT ![t] = IF t = "initial" THEN "returned" ELSE "idle"]

\* the call of trigger t returns through finally: isExporting = false
exportReturns(t) ==
    /\ isExporting' = FALSE
    /\ xpc' = [xpc EXCEPT ![t] = IF t = "initial" THEN "returned" ELSE "idle"]

exportFrame ==
    UNCHANGED <<lockVars, taskVars, tierVars, loopVars, lifeVars, syncVars, pollVars,
                cacheVars, serverVars, enableBulkHeadersCDN>>

\* the main thread adds a new block to the active chain and calls the header
\* subscriber, which calls exportBulkHeaders when the CDN is enabled
NewHeader ==
    /\ currentHeight < MaxExportHeight
    /\ \E h \in {ingestedHeader(liveHeaders, activeTip, 3, 0, "none")} :
       \E s \in {addLiveHeader(h)} :
            /\ storeStep(s, h)
            /\ notes' = notifications(h, s.res)
    /\ IF enableBulkHeadersCDN
       THEN exportCall("header")
       ELSE UNCHANGED <<isExporting, xpc, lastCall>>
    /\ UNCHANGED <<lastExportedHeight, xcur, exported, exportErrors>>
    /\ exportFrame

\* await exportBulkHeaders() after the server has started
InitialExport ==
    /\ enableBulkHeadersCDN
    /\ xpc["initial"] = "idle"
    /\ exportCall("initial")
    /\ UNCHANGED <<storeVars, mainVars, lastExportedHeight, xcur, exported, exportErrors>>
    /\ exportFrame

\* the interval set after the initial export fires
TimerTick ==
    /\ enableBulkHeadersCDN
    /\ xpc["initial"] = "returned"
    /\ exportCall("timer")
    /\ UNCHANGED <<storeVars, mainVars, lastExportedHeight, xcur, exported, exportErrors>>
    /\ exportFrame

\* await chaintracks.currentHeight() returns: the milestones are compared and
\* either chaintracks.exportBulkHeaders is called or the call returns
ReadHeight(t) ==
    /\ xpc[t] = "height"
    /\ xcur' = [xcur EXCEPT ![t] = currentHeight]
    /\ IF shouldExport(currentHeight, lastExportedHeight)
       THEN /\ xpc' = [xpc EXCEPT ![t] = "exporting"]
            /\ UNCHANGED isExporting
       ELSE exportReturns(t)
    /\ UNCHANGED <<storeVars, mainVars, lastExportedHeight, exported, lastCall,
                   exportErrors>>
    /\ exportFrame

\* await chaintracks.exportBulkHeaders(...) returns: lastExportedHeight is set
ExportDone(t) ==
    /\ xpc[t] = "exporting"
    /\ lastExportedHeight' = xcur[t]
    /\ exported' = Append(exported, xcur[t])
    /\ xpc' = [xpc EXCEPT ![t] = "listing"]
    /\ UNCHANGED <<storeVars, mainVars, isExporting, xcur, lastCall, exportErrors>>
    /\ exportFrame

\* the exported files are listed and the call returns
ListDone(t) ==
    /\ xpc[t] = "listing"
    /\ exportReturns(t)
    /\ UNCHANGED <<storeVars, mainVars, lastExportedHeight, xcur, exported, lastCall,
                   exportErrors>>
    /\ exportFrame

\* currentHeight or the export throws: the error is caught and logged
ExportFails(t) ==
    /\ xpc[t] \in {"height", "exporting"}
    /\ exportErrors < MaxFaults
    /\ exportErrors' = exportErrors + 1
    /\ exportReturns(t)
    /\ UNCHANGED <<storeVars, mainVars, lastExportedHeight, xcur, exported, lastCall>>
    /\ exportFrame

ExportNext ==
    \/ NewHeader
    \/ InitialExport
    \/ TimerTick
    \/ \E t \in Triggers : ReadHeight(t)
    \/ \E t \in Triggers : ExportDone(t)
    \/ \E t \in Triggers : ListDone(t)
    \/ \E t \in Triggers : ExportFails(t)

\* the server has started on a synchronized chain, the CDN switched on or off
ExportInit ==
    /\ liveHeaders = syncedStore.live
    /\ activeByHeight = syncedStore.abh
    /\ activeTip = syncedStore.tip
    /\ tooDeep = {}
    /\ header = NoHeader
    /\ result = NoResult
    /\ notes = <<>>
    /\ LocksIdle
    /\ TierIdle
    /\ LoopIdle("wait")
    /\ EngineRunning
    /\ SyncIdle
    /\ PollIdle
    /\ CacheIdle
    /\ \E enabled \in BOOLEAN : ExportIdle(enabled)
    /\ ServerIdle

\* the server's export checks over a growing chain
ExportSpec == ExportInit /\ [][ExportNext]_vars

\* the calls that are past the guard
inProgress == {t \in Triggers : xpc[t] \in {"height", "exporting", "listing"}}

\* chaintracks.exportBulkHeaders is called in this step
exportBegins == \E t \in Triggers : xpc[t] # "exporting" /\ xpc'[t] = "exporting"

\* the first multiple of the boundary above a height
nextBoundary(height) == (height \div exportBoundary + 1) * exportBoundary

\* each successful export after the first was made at or above the boundary
\* that follows the export before it
exportsAtBoundaries ==
    /\ \A i \in 1..(Len(exported) - 1) : exported[i + 1] >= nextBoundary(exported[i])
    /\ lastExportedHeight = IF exported = <<>> THEN 0 ELSE exported[Len(exported)]
    /\ ~enableBulkHeadersCDN => exported = <<>> /\ inProgress = {}

(* C29: export at the boundaries.  chaintracks.exportBulkHeaders is called   *)
(* only when the CDN is enabled and either nothing was exported yet          *)
(* (lastExportedHeight = 0) or the current height's milestone is above that  *)
(* of lastExportedHeight; after a successful export at height H no export    *)
(* begins, whatever headers and timer ticks arrive, until the chain height   *)
(* has reached the next multiple of the boundary above H.                    *)
ExportAtBoundaries ==
    /\ []exportsAtBoundaries
    /\ [][exportBegins =>
            /\ enableBulkHeadersCDN
            /\ \/ lastExportedHeight = 0
               \/ currentHeight \div exportBoundary > lastExportedHeight \div exportBoundary
            /\ exported # <<>> =>
                  currentHeight >= nextBoundary(exported[Len(exported)])]_vars

\* after an export inside a milestone a check found no boundary crossed, and
\* the export after it was made when the next boundary was reached
ExportAtBoundariesWitness ==
    /\ Len(exported) >= 2
    /\ exported[1] % exportBoundary # 0
    /\ exported[2] = nextBoundary(exported[1])
    /\ lastCall.outcome = "started"
    /\ inProgress = {}
    /\ currentHeight = exported[2] + 1

(* C30: at most one export is in progress.  isExporting holds exactly while  *)
(* one call is past the guard, never two; a call of exportBulkHeaders that   *)
(* arrives from the header subscriber, the timer or the initial export while *)
(* isExporting holds returns at once: it is skipped, not queued, and calls   *)
(* nothing.                                                                  *)
OneExport ==
    /\ [](Cardinality(inProgress) <= 1 /\ (isExporting <=> inProgress # {}))
    /\ [][lastCall' # lastCall /\ isExporting =>
            /\ lastCall'.outcome = "skipped"
            /\ isExporting'
            /\ \A t \in Triggers : xpc'[t] \in {xpc[t], "returned"}
            /\ inProgress' = inProgress
            /\ UNCHANGED <<exported, lastExportedHeight, xcur>>]_vars

\* a timer tick was skipped while the header subscriber's export is in progress
OneExportWitness ==
    /\ lastCall = [trigger |-> "timer", outcome |-> "skipped"]
    /\ xpc["header"] = "exporting"
    /\ isExporting

\* the initial export was skipped while the header subscriber's export is in
\* progress
InitialSkippedWitness ==
    /\ lastCall = [trigger |-> "initial", outcome |-> "skipped"]
    /\ xpc["initial"] = "returned"
    /\ xpc["header"] \in {"height", "exporting", "listing"}


\* an export attempt of trigger t ends in this step
attemptEnds(t) == t \in inProgress /\ t \notin inProgress'

(* C31: the export guard is always released.  On every exit of an export     *)
(* attempt (export done, no export needed, an error thrown by currentHeight  *)
(* or by the export) isExporting is false again, so that isExporting never   *)
(* holds with no attempt in progress and a later call passes the guard; an   *)
(* attempt that fails leaves lastExportedHeight unchanged, and               *)
(* lastExportedHeight changes only at the end of a successful export, to the *)
(* height that attempt read at its start.                                    *)
GuardReleased ==
    /\ [](inProgress = {} => ~isExporting)
    /\ [][/\ \A t \in Triggers : attemptEnds(t) => ~isExporting'
          /\ exportErrors' # exportErrors =>
                /\ \E t \in Triggers : attemptEnds(t)
                /\ UNCHANGED <<lastExportedHeight, exported>>
          /\ lastExportedHeight' # lastExportedHeight =>
                \E t \in Triggers :
                    /\ xpc[t] = "exporting"
                    /\ xpc'[t] = "listing"
                    /\ lastExportedHeight' = xcur[t]
                    /\ exported' = Append(exported, xcur[t])]_vars

\* after a failed attempt a later attempt passed the guard and exported, at
\* the height it had read and not at the height the chain has reached since
GuardReleasedWitness ==
    /\ exportErrors >= 1
    /\ Len(exported) = 1
    /\ \E t \in Triggers : xpc[t] = "listing" /\ lastExportedHeight = xcur[t]
    /\ currentHeight > lastExportedHeight
    /\ isExporting

\* an attempt that found no boundary crossed has released the guard
NoExportNeededWitness ==
    /\ exported # <<>>
    /\ lastCall.outcome = "started"
    /\ inProgress = {}
    /\ ~isExporting
    /\ milestone(currentHeight) = milestone(lastExportedHeight)
    /\ exportErrors = 0

----------------------------------------------------------------------------
(* Event subscriptions *)

\* most subscriptions made over one life of the engine
MaxSubs == 3
\* most headers stored while subscriptions come and go
MaxSubsHeaders == 4

EventKinds == {"header", "reorg"}

\* subscribeHeaders / subscribeReorgs: the listener is registered last, under
\* an id no subscription had before
subscribe(subs, id, kind) == Append(subs, [id |-> id, kind |-> kind])

\* mutant: unsubscribe removes nothing
unsubscribe_nothing(subs, id) == subs

\* unsubscribe(id): the subscription of that id is removed, the others stay
\* in their order
unsubscribe(subs, id) == SelectSeq(subs, LAMBDA sub : sub.id # id)

\* the ids subscribed for a kind of event, in subscription order
listenersOf(subs, kind) ==
    LET of == SelectSeq(subs, LAMBDA sub : sub.kind = kind)
    IN  [i \in 1..Len(of) |-> of[i].id]

\* the listener calls of the live loop for one processed header, over the
\* subscriptions subs
notificationsTo(subs, h, res) ==
    LET hl == listenersOf(subs, "header")
        rl == listenersOf(subs, "reorg")
    IN  IF res.added /\ res.isActiveTip
        THEN [i \in 1..Len(hl) |-> headerNote(hl[i], h)]
             \o (IF res.reorgDepth > 0
                 THEN [i \in 1..Len(rl) |-> reorgNote(rl[i], h, res)]
                 ELSE <<>>)
        ELSE <<>>

subsFrame ==
    UNCHANGED <<lockVars, taskVars, tierVars, lifeVars, syncVars, pollVars, cacheVars,
                exportVars, shpc, exportInterval, cdnServer, exitCode, loaded, liveQueue,
                baseQueue, mpc, inHand, recursions, fetched, intake, acked>>

\* await chaintracks.subscribeHeaders(cb) / subscribeReorgs(cb)
Subscribe ==
    /\ nextId <= MaxSubs
    /\ \E kind \in EventKinds : subscribers' = subscribe(subscribers, nextId, kind)
    /\ nextId' = nextId + 1
    /\ UNCHANGED <<storeVars, mainVars, returned, delivered, tipLog>>
    /\ subsFrame

\* await chaintracks.unsubscribe(id) returns
Unsubscribe ==
    /\ \E id \in 1..(nextId - 1) \ returned :
        /\ subscribers' = unsubscribe(subscribers, id)
        /\ returned' = returned \cup {id}
    /\ UNCHANGED <<storeVars, mainVars, nextId, delivered, tipLog>>
    /\ subsFrame

\* the live loop processes a header and calls the subscribers
NotifyHeader ==
    /\ Cardinality(DOMAIN liveHeaders) < MaxSubsHeaders
    /\ \E p \in DOMAIN liveHeaders, sh \in TierShapes :
        \E h \in {ingestedHeader(liveHeaders, p, sh[1], sh[2], "none")} :
        \E s \in {addLiveHeader(h)} :
            /\ storeStep(s, h)
            /\ tipLog' = tipLogAfter(tipLog, activeTip, s.tip)
            /\ notes' = notificationsTo(subscribers, h, s.res)
            /\ delivered' = delivered \o notificationsTo(subscribers, h, s.res)
    /\ UNCHANGED <<subscribers, nextId, returned>>
    /\ subsFrame

SubsNext == Subscribe \/ Unsubscribe \/ NotifyHeader

\* the engine running, no subscription made yet
SubsInit == Init

SubsSpec == SubsInit /\ [][SubsNext]_vars

\* the listener calls made in this step, in order
newCalls == SubSeq(delivered', Len(delivered) + 1, Len(delivered'))

\* the ids called in a sequence of calls of one kind, in call order
calledOf(calls, kind) ==
    LET of == SelectSeq(calls, LAMBDA c : c.kind = kind)
    IN  [i \in 1..Len(of) |-> of[i].listener]

\* ids grow along a sequence
ascending(ids) == \A i, j \in DOMAIN ids : i < j => ids[i] < ids[j]

subscribedIds == {subscribers[i].id : i \in DOMAIN subscribers}

UnsubscribeReorgWitness ==
    /\ result.reorgDepth > 0
    /\ returned = {2}
    /\ Len(notes) = 2
    /\ notes[1].kind = "header" /\ notes[1].listener = 1
    /\ notes[2].kind = "reorg" /\ notes[2].listener = 3

----------------------------------------------------------------------------
(* Server: shutdown *)

\* height the chain reaches while the server shuts down
MaxShutHeight == 3

\* the ids the server's two subscriptions got
headerSubscriptionId == 1
reorgSubscriptionId == 2

\* the runs of the shutdown handler, one per signal received
Signals == 1..MaxSignals

\* the positions at which a run of the handler waits for a promise
shutdownAwaits == {"cdn", "unsubHeader", "unsubReorg", "stopping"}

\* the handler's awaits in order: close the CDN server, unsubscribe the
\* header listener, unsubscribe the reorg listener, stopJsonRpcServer, exit
afterCdn(pos) ==
    CASE pos = "cdn" -> "unsubHeader"
      [] pos = "unsubHeader" -> "unsubReorg"
      [] pos = "unsubReorg" -> "stopping"
      [] OTHER -> "exit"

shutdownFrame ==
    UNCHANGED <<storeVars, mainVars, lockVars, taskVars, tierVars, loopVars, lifeVars,
                syncVars, pollVars, cacheVars, exportVars, nextId, loaded>>

\* a signal arrives: shutdown(signal) runs up to its first await, clearing
\* the export timer and asking the CDN server to close when there is one
Signal(i) ==
    /\ exitCode = Running
    /\ shpc[i] = "none"
    /\ \A j \in Signals : j < i => shpc[j] # "none"
    /\ exportInterval' = IF exportInterval = "unset" THEN "unset" ELSE "cleared"
    /\ shpc' = [shpc EXCEPT ![i] = IF cdnServer = "none" THEN afterCdn("cdn") ELSE "cdn"]
    /\ cdnServer' = IF cdnServer = "listening" THEN "closing" ELSE cdnServer
    /\ UNCHANGED <<subscribers, returned, exitCode>>
    /\ shutdownFrame

\* cdnServer.close calls back: the promise resolves, unsubscribe is called
CdnClosed(i) ==
    /\ exitCode = Running
    /\ shpc[i] = "cdn"
    /\ cdnServer' = "closed"
    /\ shpc' = [shpc EXCEPT ![i] = afterCdn("cdn")]
    /\ UNCHANGED <<subscribers, returned, exportInterval, exitCode>>
    /\ shutdownFrame

\* await chaintracks.unsubscribe(id) returns in run i at position pos
unsubscribed(i, pos, id) ==
    /\ exitCode = Running
    /\ shpc[i] = pos
    /\ subscribers' = unsubscribe(subscribers, id)
    /\ returned' = returned \cup {id}
    /\ shpc' = [shpc EXCEPT ![i] = afterCdn(pos)]
    /\ UNCHANGED <<exportInterval, cdnServer, exitCode>>
    /\ shutdownFrame

UnsubscribedHeader(i) == /\ unsubscribed(i, "unsubHeader", headerSubscriptionId)

UnsubscribedReorg(i) == /\ unsubscribed(i, "unsubReorg", reorgSubscriptionId)

\* stopJsonRpcServer, called by a run of the handler, calls destroy()
ServerDestroy ==
    /\ exitCode = Running
    /\ \E i \in Signals : shpc[i] = "stopping"
    /\ DestroyBegin

\* the main thread sees stopMainThread after its wait and ends
MainThreadEnds ==
    /\ exitCode = Running
    /\ stopMainThread
    /\ Wait

\* the steps of destroy() after its first
ServerDestroySteps ==
    /\ exitCode = Running
    /\ Destroy

\* await service.stopJsonRpcServer() returns in run i
Stopped(i) ==
    /\ exitCode = Running
    /\ shpc[i] = "stopping"
    /\ dpc = "done"
    /\ shpc' = [shpc EXCEPT ![i] = afterCdn("stopping")]
    /\ UNCHANGED <<subscribers, returned, exportInterval, cdnServer, exitCode>>
    /\ shutdownFrame

\* process.exit(0) at the end of the try block
ExitSuccess(i) ==
    /\ exitCode = Running
    /\ shpc[i] = "exit"
    /\ exitCode' = 0
    /\ shpc' = [shpc EXCEPT ![i] = "exited"]
    /\ UNCHANGED <<subscribers, returned, exportInterval, cdnServer>>
    /\ shutdownFrame

\* unsubscribe or stopJsonRpcServer throws in run i: catch, process.exit(1)
ShutdownFails(i) ==
    /\ exitCode = Running
    /\ shpc[i] \in shutdownAwaits \ {"cdn"}
    /\ exitCode' = 1
    /\ shpc' = [shpc EXCEPT ![i] = "failed"]
    /\ UNCHANGED <<subscribers, returned, exportInterval, cdnServer>>
    /\ shutdownFrame

\* the main thread adds a new block to the active chain and calls the
\* subscribers; the server's header listener calls exportBulkHeaders when the
\* CDN is enabled
ServerHeader ==
    /\ exitCode = Running
    /\ mpc # "ended"
    /\ currentHeight < MaxShutHeight
    /\ \E h \in {ingestedHeader(liveHeaders, activeTip, 3, 0, "none")} :
       \E s \in {addLiveHeader(h)} :
            /\ storeStep(s, h)
            /\ notes' = notificationsTo(subscribers, h, s.res)
    /\ IF enableBulkHeadersCDN /\ headerSubscriptionId \in subscribedIds
       THEN exportCall("header")
       ELSE UNCHANGED <<isExporting, xpc, lastCall>>
    /\ UNCHANGED <<lastExportedHeight, xcur, exported, exportErrors>>
    /\ exportFrame

\* the export timer fires while it is set
ServerTimer == exitCode = Running /\ exportInterval = "set" /\ TimerTick

\* the steps of a call of exportBulkHeaders after its first
ServerExport ==
    /\ exitCode = Running
    /\ \E t \in Triggers : ReadHeight(t) \/ ExportDone(t) \/ ListDone(t) \/ ExportFails(t)

ShutdownNext ==
    \/ ServerHeader
    \/ ServerTimer
    \/ ServerExport
    \/ \E i \in Signals : Signal(i)
    \/ \E i \in Signals : CdnClosed(i)
    \/ \E i \in Signals : UnsubscribedHeader(i)
    \/ \E i \in Signals : UnsubscribedReorg(i)
    \/ ServerDestroy
    \/ MainThreadEnds
    \/ ServerDestroySteps
    \/ \E i \in Signals : Stopped(i)
    \/ \E i \in Signals : ExitSuccess(i)
    \/ \E i \in Signals : ShutdownFails(i)

\* the server when its signal handlers are registered: the chain synchronized,
\* both listeners subscribed and, with the CDN enabled, the CDN server
\* listening, the initial export made and the export timer set
ShutdownInit ==
    /\ liveHeaders = syncedStore.live
    /\ activeByHeight = syncedStore.abh
    /\ activeTip = syncedStore.tip
    /\ tooDeep = {}
    /\ header = NoHeader
    /\ result = NoResult
    /\ notes = <<>>
    /\ LocksIdle
    /\ TierIdle
    /\ LoopIdle("wait")
    /\ EngineRunning
    /\ SyncIdle
    /\ PollIdle
    /\ CacheIdle
    /\ enableBulkHeadersCDN \in BOOLEAN
    /\ isExporting = FALSE
    /\ lastExportedHeight = IF enableBulkHeadersCDN THEN syncedStore.live[syncedStore.tip].height
                            ELSE 0
    /\ xpc = [t \in Triggers |->
                 IF enableBulkHeadersCDN /\ t = "initial" THEN "returned" ELSE "idle"]
    /\ xcur = [t \in Triggers |-> IF t = "initial" THEN lastExportedHeight ELSE 0]
    /\ exported = IF enableBulkHeadersCDN THEN <<lastExportedHeight>> ELSE <<>>
    /\ lastCall = IF enableBulkHeadersCDN
                  THEN [trigger |-> "initial", outcome |-> "started"] ELSE NoCall
    /\ exportErrors = 0
    /\ subscribers = subscribe(subscribe(<<>>, headerSubscriptionId, "header"),
                               reorgSubscriptionId, "reorg")
    /\ nextId = 3
    /\ returned = {}
    /\ shpc = [i \in Signals |-> "none"]
    /\ exportInterval = IF enableBulkHeadersCDN THEN "set" ELSE "unset"
    /\ cdnServer = IF enableBulkHeadersCDN THEN "listening" ELSE "none"
    /\ exitCode = Running
    /\ loaded = {}

ShutdownSpec == ShutdownInit /\ [][ShutdownNext]_vars


\* the runs of the shutdown handler that have started
started == {i \in Signals : shpc[i] # "none"}

\* the order of the positions of one run of the handler
shutdownRank(pos) ==
    CASE pos = "none" -> 0
      [] pos = "cdn" -> 1
      [] pos = "unsubHeader" -> 2
      [] pos = "unsubReorg" -> 3
      [] pos = "stopping" -> 4
      [] pos = "exit" -> 5
      [] OTHER -> 6

\* a run of the handler has got past position pos without failing
passed(i, pos) == shpc[i] # "failed" /\ shutdownRank(shpc[i]) > shutdownRank(pos)

\* the steps of the handler in order, and its exit codes
shutdownInOrder ==
    /\ \A i \in started : exportInterval # "set"
    /\ \A i \in Signals : passed(i, "cdn") => cdnServer \in {"none", "closed"}
    /\ \A i \in Signals : passed(i, "unsubHeader") => headerSubscriptionId \in returned
    /\ \A i \in Signals : passed(i, "unsubReorg") => reorgSubscriptionId \in returned
    /\ \A i \in Signals : passed(i, "stopping") => dpc = "done"
    /\ dpc # "no" => \E i \in Signals : shutdownRank(shpc[i]) >= shutdownRank("stopping")
    /\ dpc # "no" => {headerSubscriptionId, reorgSubscriptionId} \subseteq returned
                     /\ subscribers = <<>>
    /\ exitCode = 0 <=> \E i \in Signals : shpc[i] = "exited"
    /\ exitCode = 1 <=> \E i \in Signals : shpc[i] = "failed"

\* a run of the handler moves one position forward at a time, or fails at an
\* await; no listener is called once destroy() has begun
shutdownSteps ==
    /\ \A i \in Signals :
          shpc'[i] # shpc[i] =>
              \/ shpc'[i] = "failed" /\ shpc[i] \in shutdownAwaits
              \/ shutdownRank(shpc'[i]) = shutdownRank(shpc[i]) + 1
              \/ shpc[i] = "none" /\ shpc'[i] = "unsubHeader" /\ cdnServer = "none"
    /\ header' # header /\ dpc # "no" => notes' = <<>>

\* what the handler keeps: the order of its steps and the exit codes
ServerShutdownOrder == []shutdownInOrder /\ [][shutdownSteps]_vars

\* an export the header listener started is running
headerExportRuns == xpc["header"] = "exporting"

(* C32: the shutdown sequence.  On a signal the server stops the export      *)
(* timer, closes the CDN server, unsubscribes the header and the reorg       *)
(* listener and only then calls stopJsonRpcServer, exiting with code 0, and  *)
(* with code 1 on an error in any step; the listeners are unsubscribed       *)
(* before destroy() begins, so that no listener is called, and no export a   *)
(* listener started runs, once the storage is destroyed.                     *)
ShutdownSequence ==
    /\ []shutdownInOrder
    /\ [][shutdownSteps]_vars
    /\ [](storageUp = "destroyed" => ~headerExportRuns)

\* one signal was handled to the end: exit code 0 after destroy() finished
ShutdownSequenceWitness ==
    /\ exitCode = 0
    /\ shpc[1] = "exited"
    /\ shpc[2] = "none"
    /\ cdnServer = "closed"
    /\ exportInterval = "cleared"
    /\ storageUp = "destroyed"

(* C37: the shutdown sequence runs at most once.  A further signal that      *)
(* arrives while a shutdown is in progress starts no second run of the       *)
(* handler, and the process exits once, with the code of the first run.      *)
ShutdownOnce ==
    /\ [](Cardinality(started) <= 1)
    /\ [](exitCode # Running => shpc[1] \in {"exited", "failed"})

\* two runs of the handler are in progress at once, both past the CDN server
TwoShutdownsWitness ==
    /\ shpc[1] = "unsubReorg"
    /\ shpc[2] = "unsubHeader"
    /\ exitCode = Running

\* the process exited with the code of the second run while the first run
\* was still waiting for stopJsonRpcServer
SecondExitsWitness ==
    /\ shpc[1] = "stopping"
    /\ shpc[2] = "failed"
    /\ exitCode = 1

----------------------------------------------------------------------------
(* Extension of the active chain, and its well-formedness *)

\* the header processed in this step is valid, new, and follows the active tip
onTip ==
    /\ validate(header')
    /\ header'.previousHash = activeTip
    /\ header'.hash \notin DOMAIN liveHeaders
    /\ header'.height = liveHeaders[activeTip].height + 1

\* it is the active tip afterwards: one ActiveIndex entry more, at its height,
\* nothing else changed, no reorg reported in the result
becomesTip ==
    /\ activeTip' = header'.hash
    /\ result'.added /\ result'.isActiveTip
    /\ result'.reorgDepth = 0
    /\ result'.deactivatedHeaders = <<>>
    /\ header'.height \notin DOMAIN activeByHeight
    /\ DOMAIN activeByHeight' = DOMAIN activeByHeight \cup {header'.height}
    /\ activeByHeight'[header'.height] = header'.hash
    /\ \A ht \in DOMAIN activeByHeight : activeByHeight'[ht] = activeByHeight[ht]
    /\ DOMAIN liveHeaders' = DOMAIN liveHeaders \cup {header'.hash}
    /\ \A x \in DOMAIN liveHeaders : liveHeaders'[x] = liveHeaders[x]
    /\ liveHeaders'[header'.hash].isActive

\* every header subscriber is called with it, in order, and no reorg subscriber
headerCallsOnly ==
    notes' = [i \in 1..Len(headerListeners) |-> headerNote(headerListeners[i], header')]

(* C33: a valid header whose previousHash is the active tip becomes the new  *)
(* active tip with reorgDepth 0 and no deactivated headers: exactly one      *)
(* ActiveIndex entry is added, at the tip height plus one, no existing entry *)
(* changes, the header subscribers are notified and no reorg subscriber is.  *)
TipExtension == [][onTip => becomesTip /\ headerCallsOnly]_vars

\* what holds on both paths: the store part, and calls to the header
\* subscribers only whenever calls are made
TipExtensionStore ==
    [][onTip => becomesTip /\ (notes' # <<>> => headerCallsOnly)]_vars

\* a header on the active tip was processed, became the tip and was reported
TipExtensionWitness ==
    /\ result.added /\ result.isActiveTip /\ result.reorgDepth = 0
    /\ activeTip = header.hash
    /\ header.previousHash = result.priorTip
    /\ header.height = 2
    /\ Len(notes) = Len(headerListeners)


\* the same on the live loop alone, where the subscribers are called
TipExtensionLive == [][onTip /\ mpc = "insert" => becomesTip /\ headerCallsOnly]_vars


\* the heights of ActiveIndex are a range that ends at the active tip
indexContiguous ==
    /\ activeTip \in DOMAIN liveHeaders
    /\ liveHeaders[activeTip].height \in DOMAIN activeByHeight
    /\ activeByHeight[liveHeaders[activeTip].height] = activeTip
    /\ \A ht \in DOMAIN activeByHeight : ht <= liveHeaders[activeTip].height
    /\ \A ht \in DOMAIN activeByHeight :
          \A mid \in ht..liveHeaders[activeTip].height : mid \in DOMAIN activeByHeight

\* ActiveIndex names one stored header per height, of that height, each the
\* child of the one below
indexLinked ==
    \A ht \in DOMAIN activeByHeight :
        /\ activeByHeight[ht] \in DOMAIN liveHeaders
        /\ liveHeaders[activeByHeight[ht]].height = ht
        /\ ht - 1 \in DOMAIN activeByHeight =>
              liveHeaders[activeByHeight[ht]].previousHash = activeByHeight[ht - 1]
        /\ \A other \in DOMAIN activeByHeight :
              activeByHeight[other] = activeByHeight[ht] => other = ht

\* isActive says what ActiveIndex says
flagsMatchIndex ==
    \A x \in DOMAIN liveHeaders :
        liveHeaders[x].isActive <=>
            /\ liveHeaders[x].height \in DOMAIN activeByHeight
            /\ activeByHeight[liveHeaders[x].height] = x

(* C35: well-formedness of the active chain.  In every reachable state       *)
(* ActiveIndex holds one hash per height over a contiguous range of heights  *)
(* that ends at the active tip, each active header's previousHash is the     *)
(* ActiveIndex hash one height below, and a live entry has isActive exactly  *)
(* when ActiveIndex at its height is its hash, also after a reorg onto a     *)
(* chain of fewer blocks than the old one.                                   *)
ActiveChainWellFormed == indexContiguous /\ indexLinked /\ flagsMatchIndex

\* a reorg onto a chain with fewer blocks than the old one: a stored header
\* lies above the new active tip and is inactive
ActiveChainWellFormedWitness ==
    /\ result.reorgDepth = 2
    /\ activeTip = header.hash
    /\ liveHeaders[activeTip].height = 1
    /\ \E x \in DOMAIN liveHeaders : liveHeaders[x].height = 2 /\ ~liveHeaders[x].isActive

----------------------------------------------------------------------------
(* Initial synchronization and the subscribers *)

\* most headers the initial synchronization stores
MaxSynced == 2

\* the store after bulk.synchronize inserted n headers above genesis
RECURSIVE syncedChain(_)
syncedChain(n) ==
    IF n = 0
    THEN [live |-> [x \in {GenesisHash} |-> genesisEntry],
          abh |-> [ht \in {0} |-> GenesisHash], tip |-> GenesisHash]
    ELSE LET s == syncedChain(n - 1)
         IN  insertHeader(s.live, s.abh, s.tip,
                          ingestedHeader(s.live, s.tip, 3, 0, "none"))

\* mutant: the subscribers are called for the tip the synchronization stored
syncCalls_forTip(s) ==
    notifications([previousHash |-> s.live[s.tip].previousHash, bits |-> s.live[s.tip].bits,
                   nonce |-> s.live[s.tip].nonce, height |-> s.live[s.tip].height,
                   hash |-> s.tip, wellFormed |-> TRUE],
                  [NoResult EXCEPT !.added = TRUE, !.isActiveTip = TRUE])

\* the listener calls syncBulkStorage makes for the headers it stores: none,
\* the listeners are called by the live loop only
syncCalls(s) == <<>>

\* the main thread's first syncBulkStorage: bulk.synchronize inserts headers
\* into the storage and returns live headers for processing, available = true,
\* then the live loop
InitialSync ==
    /\ mpc = "sync"
    /\ \E n \in 1..MaxSynced, k \in 0..1 :
       \E s \in {syncedChain(n)} :
            /\ liveHeaders' = s.live
            /\ activeByHeight' = s.abh
            /\ activeTip' = s.tip
            /\ loaded' = DOMAIN s.live \ {GenesisHash}
            /\ delivered' = delivered \o syncCalls(s)
            /\ tipLog' = Append(tipLog, s.tip)
            /\ liveCondition((IF k = 1 THEN <<ingestedHeader(s.live, s.tip, 3, 0, "none")>>
                              ELSE <<>>) \o liveQueue)
    /\ available' = TRUE
    /\ UNCHANGED <<tooDeep, mainVars, lockVars, taskVars, tierVars, recursions, fetched,
                   intake, acked, epc, dpc, startupError, stopMainThread, liveIngestor,
                   bulkIngestor, storageUp, logged, syncVars, pollVars, cacheVars,
                   exportVars, subscribers, nextId, returned, shpc, exportInterval,
                   cdnServer, exitCode>>

StartNext ==
    \/ MakeAvailable
    \/ InitialSync
    \/ SyncFails
    \/ LifePush
    \/ LifeSubmit
    \/ MainStep
    \/ Caller

\* the engine constructed and the listeners subscribed, before makeAvailable
StartInit == LifeInit

StartSpec == StartInit /\ [][StartNext]_vars

\* the tips the listeners were called with
calledTips == {delivered[i].newTip : i \in DOMAIN delivered}

(* C34: header subscribers registered before makeAvailable are not called    *)
(* for the headers the initial bulk synchronization loads; listener calls    *)
(* are made only for headers processed after available = true.              *)
CallsAfterSync ==
    /\ [](calledTips \cap loaded = {})
    /\ [](mpc \in {"off", "sync"} => delivered = <<>>)
    /\ [][delivered' # delivered => available /\ mpc = "insert" /\ header' # header
                                    /\ header'.hash \notin loaded]_vars

\* the synchronization stored two headers and no listener was called for
\* them; the listeners were called for a header processed afterwards
CallsAfterSyncWitness ==
    /\ Cardinality(loaded) = 2
    /\ available
    /\ Len(delivered) = Len(headerListeners)
    /\ delivered[1].newTip = activeTip
    /\ liveHeaders[activeTip].height = 3

\* the synchronization has just stored headers: the tip changed and no
\* listener has been called
SyncedSilentlyWitness ==
    /\ loaded # {}
    /\ activeTip \in loaded
    /\ available
    /\ delivered = <<>>

----------------------------------------------------------------------------
(* Submissions under a stream of live headers *)

\* most headers stored while the stream runs; further live headers are
\* headers the store already has
MaxStreamHeaders == 3
\* most live headers waiting at a time
MaxStreamQueue == 1
\* client submissions made while the stream runs
MaxStreamIntake == 1

\* the header the live ingestors report next: the child of the active tip
\* while the store has room for it, afterwards the tip again (as a second
\* ingestor reports it)
streamHeader ==
    IF Cardinality(DOMAIN liveHeaders) < MaxStreamHeaders
    THEN ingestedHeader(liveHeaders, activeTip, 3, 0, "none")
    ELSE [previousHash |-> liveHeaders[activeTip].previousHash,
          bits |-> liveHeaders[activeTip].bits, nonce |-> liveHeaders[activeTip].nonce,
          height |-> liveHeaders[activeTip].height, hash |-> activeTip,
          wellFormed |-> TRUE]

\* a live ingestor pushes a header, without end
StreamPush ==
    /\ Len(liveQueue) < MaxStreamQueue
    /\ liveQueue' = Append(liveQueue, streamHeader)
    /\ UNCHANGED <<storeVars, mainVars, lockVars, taskVars, tierVars, lifeVars, baseQueue,
                   mpc, inHand, recursions, fetched, delivered, tipLog, intake, acked,
                   sideVars>>

\* POST /addHeaderHex while the stream runs
StreamSubmit == intake < MaxStreamIntake /\ ClientSubmit

\* one step of the main loop while the stream runs
StreamMain ==
    /\ MainStep
    /\ TRUE

StreamNext == StreamPush \/ StreamSubmit \/ StreamMain

StreamSpec == Init /\ [][StreamNext]_vars

\* the main thread always takes its next step
StreamFairSpec == StreamSpec /\ WF_vars(StreamMain)

================================================================================
